---- MODULE Spec2Model ----
(***************************************************************************)
(* Auto Repair Workshop ERP backend (FastAPI + psycopg + python-jose +     *)
(* passlib).  The relational store, the password hasher, the token codec,  *)
(* the access guard and the route handlers, as a state machine.            *)
(*                                                                         *)
(* Every HTTP request is served by its own worker.  A worker is a slot:    *)
(* it evaluates the dependencies of the route (the access guard, one       *)
(* SELECT on its own connection), then runs the handler (one statement     *)
(* and commit on another connection), and each of these database round     *)
(* trips is one atomic step, so that requests interleave between them.     *)
(***************************************************************************)
EXTENDS Integers, Sequences, FiniteSets, TLC

VARIABLES
    users,      \* table users: sequence of rows, row i has id i
    customers,  \* table customers
    vehicles,   \* table vehicles
    jobs,       \* table jobs
    invoices,   \* table invoices
    notes,      \* table job_notes
    now,        \* the wall clock (datetime.utcnow()), in ticks
    slot,       \* per worker: position in the request and the last response
    probe       \* inputs and result of a function applied on its own

vars == <<users, customers, vehicles, jobs, invoices, notes, now, slot, probe>>

store == <<users, customers, vehicles, jobs, invoices, notes>>

-----------------------------------------------------------------------------
(* Values *)

None == "None"

\* models.py UserRole
UserRole == {"admin", "worker"}

\* models.py JobStatus
JobStatus == {"created", "in_progress", "waiting_for_parts", "completed", "cancelled"}

\* A Python call either returns a value, returns None, or raises.
Return(v) == [exc |-> "none", some |-> TRUE, val |-> v]
ReturnNone(dflt) == [exc |-> "none", some |-> FALSE, val |-> dflt]
Raise(e, dflt) == [exc |-> e, some |-> FALSE, val |-> dflt]

-----------------------------------------------------------------------------
(* Password hasher: passlib CryptContext(schemes=["bcrypt"]) *)

\* A stored hash string.  scheme is what passlib identifies the string as
\* ("bcrypt" for a $2b$ prefix, "unknown" for any other text, "null" for a
\* NULL column); wf says whether the rest of a bcrypt string parses.
NullHash == [scheme |-> "null", wf |-> FALSE, salt |-> 0, digest |-> None]

hash_password(password, salt) ==
    [scheme |-> "bcrypt", wf |-> TRUE, salt |-> salt, digest |-> password]

\* pwd_context.verify(secret, hash): False for no hash at all; a string that
\* no configured scheme identifies raises UnknownHashError, a bcrypt string
\* that does not parse raises ValueError; nothing here catches either
verify_password(plain_password, hashed_password) ==
    IF hashed_password.scheme = "null" THEN Return(FALSE)
    ELSE IF hashed_password.scheme # "bcrypt" THEN Raise("UnknownHashError", FALSE)
    ELSE IF ~hashed_password.wf THEN Raise("ValueError", FALSE)
    ELSE Return(hashed_password.digest = plain_password)

-----------------------------------------------------------------------------
(* Token codec: python-jose, HS256 under SECRET_KEY *)

TicksPerSecond == 2

ACCESS_TOKEN_EXPIRE_MINUTES == 60 * 24

\* timegm(dt.utctimetuple()): a datetime as whole seconds, the fraction dropped
Seconds(t) == t \div TicksPerSecond

\* timedelta(minutes=m) in ticks
Minutes(m) == m * 60 * TicksPerSecond

\* expires_delta: Optional[timedelta]
NoDelta == [given |-> FALSE, ticks |-> 0]
Delta(d) == [given |-> TRUE, ticks |-> d]
\* Python truth of an Optional[timedelta]: None and timedelta(0) are false
Truthy(expires_delta) == expires_delta.given /\ expires_delta.ticks # 0

\* A claim value of the payload: an integer, a string that is no number, or absent
IntClaim(n) == [kind |-> "int", val |-> n]
StrClaim == [kind |-> "str", val |-> 0]
NoClaim == [kind |-> "none", val |-> 0]

\* A bearer string.  wf: three base64 segments holding a JSON object;
\* signed: the signature verifies under SECRET_KEY; the rest is the payload.
Token(wf, signed, user_id, username, role, exp) ==
    [wf |-> wf, signed |-> signed, user_id |-> user_id, username |-> username,
     role |-> role, exp |-> exp]

NoToken == Token(FALSE, FALSE, NoClaim, None, None, 0)

\* jwt.encode(to_encode, SECRET_KEY, algorithm=ALGORITHM): exp is written as
\* whole seconds
jwt_encode(data, expire) ==
    Token(TRUE, TRUE, data.user_id, data.username, data.role, Seconds(expire))

\* Mutant: the test is "expires_delta is not None", so timedelta(0) counts
create_access_tokenZeroTtl(data, expires_delta, t) ==
    LET expire == IF expires_delta.given
                  THEN t + expires_delta.ticks
                  ELSE t + Minutes(ACCESS_TOKEN_EXPIRE_MINUTES)
    IN jwt_encode(data, expire)

\* Mutant: expires_delta is ignored and every token lives the default time
create_access_tokenIgnoresDelta(data, expires_delta, t) ==
    jwt_encode(data, t + Minutes(ACCESS_TOKEN_EXPIRE_MINUTES))

\* expire = datetime.utcnow() + (expires_delta if it is true, else the
\* default), with t the reading of the clock
create_access_token(data, expires_delta, t) ==
    LET expire == IF Truthy(expires_delta)
                  THEN t + expires_delta.ticks
                  ELSE t + Minutes(ACCESS_TOKEN_EXPIRE_MINUTES)
    IN jwt_encode(data, expire)

\* jwt.decode(token, SECRET_KEY, algorithms=[ALGORITHM]): the signature is
\* verified first, then exp against the current whole second
jwt_decode(token, t) ==
    IF ~token.wf THEN Raise("JWTError", token)
    ELSE IF ~token.signed THEN Raise("JWTError", token)
    ELSE IF token.exp < Seconds(t) THEN Raise("JWTError", token)
    ELSE Return(token)

\* TokenData(user_id: int, username: str, role: UserRole)
NoTokenData == [user_id |-> 0, username |-> None, role |-> None]

\* except JWTError only: UserRole(role) raising ValueError and TokenData(...)
\* raising ValidationError leave the function as exceptions
decode_access_token(token, t) ==
    LET payload == jwt_decode(token, t)
    IN IF payload.exc # "none" THEN ReturnNone(NoTokenData)
       ELSE IF \/ token.user_id.kind = "none"
               \/ token.username = None
               \/ token.role = None
            THEN ReturnNone(NoTokenData)
       ELSE IF token.role \notin UserRole THEN Raise("ValueError", NoTokenData)
       ELSE IF token.user_id.kind # "int" THEN Raise("ValidationError", NoTokenData)
       ELSE Return([user_id |-> token.user_id.val, username |-> token.username,
                    role |-> token.role])

-----------------------------------------------------------------------------
(* The relational store.  The schema is not among the sources: its        *)
(* constraints and column defaults are the ones the data model states and *)
(* the queries' exception handlers expect.                                *)

\* users.username UNIQUE
users_username_key(tbl, username) == \A i \in DOMAIN tbl : tbl[i].username # username

\* users.is_active DEFAULT TRUE
users_is_active_default == TRUE

\* customers.is_active DEFAULT TRUE
customers_is_active_default == TRUE

\* vehicles.customer_id REFERENCES customers(id)
vehicles_customer_id_fkey(custs, customer_id) == customer_id \in DOMAIN custs

\* jobs.vehicle_id REFERENCES vehicles(id)
jobs_vehicle_id_fkey(vehs, vehicle_id) == vehicle_id \in DOMAIN vehs

\* jobs.assigned_worker REFERENCES users(id), nullable
jobs_assigned_worker_fkey(usrs, assigned_worker) ==
    assigned_worker = 0 \/ assigned_worker \in DOMAIN usrs

\* jobs.status DEFAULT 'created'
jobs_status_default == "created"

\* invoices.job_id REFERENCES jobs(id)
invoices_job_id_fkey(jbs, job_id) == job_id \in DOMAIN jbs

\* invoices.job_id UNIQUE
invoices_job_id_key(invs, job_id) == \A i \in DOMAIN invs : invs[i].job_id # job_id

\* invoices.is_paid DEFAULT FALSE
invoices_is_paid_default == FALSE

\* created_at DEFAULT CURRENT_TIMESTAMP of jobs, invoices and job_notes, and
\* jobs.updated_at DEFAULT CURRENT_TIMESTAMP
jobs_created_at_default(t) == t
jobs_updated_at_default(t) == t
invoices_created_at_default(t) == t
job_notes_created_at_default(t) == t

\* The trigger on jobs: BEFORE UPDATE, updated_at = CURRENT_TIMESTAMP
jobs_updated_at_trigger(row, t) == [row EXCEPT !.updated_at = t]

\* Mutant: job_notes.job_id is a plain column
job_notes_job_id_column(jbs, job_id) == TRUE

\* job_notes.job_id REFERENCES jobs(id)
job_notes_job_id_fkey(jbs, job_id) == job_id \in DOMAIN jbs

\* job_notes.worker_id REFERENCES users(id)
job_notes_worker_id_fkey(usrs, worker_id) == worker_id \in DOMAIN usrs

\* What a query hands back: the table after it and the value it returns
Out(tbl, ret) == [tbl |-> tbl, ret |-> ret]

-----------------------------------------------------------------------------
(* User queries *)

NoUser == [id |-> 0, username |-> None, password_hash |-> NullHash,
           role |-> None, is_active |-> FALSE]

\* The columns id, username, role, is_active of a row (no password_hash)
NoView == [id |-> 0, username |-> None, role |-> None, is_active |-> FALSE]
View(row) == [id |-> row.id, username |-> row.username, role |-> row.role,
              is_active |-> row.is_active]

\* Mutant: every new account is a worker, whatever role the body names
create_userAsWorker(tbl, username, password_hash, role) ==
    IF ~users_username_key(tbl, username) THEN Out(tbl, ReturnNone(NoView))
    ELSE LET row == [id |-> Len(tbl) + 1, username |-> username,
                     password_hash |-> password_hash, role |-> "worker",
                     is_active |-> users_is_active_default]
         IN Out(Append(tbl, row), Return(View(row)))

\* INSERT INTO users ... RETURNING; UniqueViolation is rolled back and
\* answered with None
create_user(tbl, username, password_hash, role) ==
    IF ~users_username_key(tbl, username) THEN Out(tbl, ReturnNone(NoView))
    ELSE LET row == [id |-> Len(tbl) + 1, username |-> username,
                     password_hash |-> password_hash, role |-> role,
                     is_active |-> users_is_active_default]
         IN Out(Append(tbl, row), Return(View(row)))

\* SELECT ... password_hash ... WHERE username = %s
get_user_by_username(tbl, username) ==
    IF \E i \in DOMAIN tbl : tbl[i].username = username
    THEN Return(tbl[CHOOSE i \in DOMAIN tbl : tbl[i].username = username])
    ELSE ReturnNone(NoUser)

\* SELECT id, username, role, is_active, created_at WHERE id = %s
get_user_by_id(tbl, user_id) ==
    IF user_id \in DOMAIN tbl THEN Return(View(tbl[user_id])) ELSE ReturnNone(NoView)

\* An Optional[bool] argument
NoBool == [given |-> FALSE, val |-> FALSE]
SomeBool(b) == [given |-> TRUE, val |-> b]
OptBool == {NoBool, SomeBool(TRUE), SomeBool(FALSE)}

\* UPDATE users SET <the fields that are not None> WHERE id = %s RETURNING
update_user(tbl, user_id, role, is_active) ==
    IF role = None /\ ~is_active.given THEN Out(tbl, ReturnNone(NoView))
    ELSE IF user_id \notin DOMAIN tbl THEN Out(tbl, ReturnNone(NoView))
    ELSE LET row == [tbl[user_id] EXCEPT
                        !.role = IF role # None THEN role ELSE @,
                        !.is_active = IF is_active.given THEN is_active.val ELSE @]
         IN Out([tbl EXCEPT ![user_id] = row], Return(View(row)))

-----------------------------------------------------------------------------
(* Entity queries.  Each takes the tables its statement reads and hands   *)
(* back the table it writes.                                              *)

NoCustomer == [id |-> 0, full_name |-> None, phone |-> None, is_active |-> FALSE]
NoVehicle == [id |-> 0, customer_id |-> 0, plate_number |-> None]
NoJob == [id |-> 0, vehicle_id |-> 0, assigned_worker |-> 0, description |-> None,
          status |-> None, created_at |-> 0, updated_at |-> 0]
NoInvoice == [id |-> 0, job_id |-> 0, total_amount |-> 0, is_paid |-> FALSE,
              created_at |-> 0]
NoNote == [id |-> 0, job_id |-> 0, worker_id |-> 0, note |-> None, created_at |-> 0]

\* INSERT INTO customers ... RETURNING
create_customer(custs, full_name, phone) ==
    LET row == [id |-> Len(custs) + 1, full_name |-> full_name, phone |-> phone,
                is_active |-> customers_is_active_default]
    IN Out(Append(custs, row), Return(row))

\* Mutant: ForeignKeyViolation is not caught and leaves the query
create_vehicleRaises(custs, vehs, customer_id, plate_number) ==
    IF ~vehicles_customer_id_fkey(custs, customer_id)
    THEN Out(vehs, Raise("ForeignKeyViolation", NoVehicle))
    ELSE LET row == [id |-> Len(vehs) + 1, customer_id |-> customer_id,
                     plate_number |-> plate_number]
         IN Out(Append(vehs, row), Return(row))

\* INSERT INTO vehicles ... RETURNING; ForeignKeyViolation is rolled back
\* and answered with None
create_vehicle(custs, vehs, customer_id, plate_number) ==
    IF ~vehicles_customer_id_fkey(custs, customer_id)
    THEN Out(vehs, ReturnNone(NoVehicle))
    ELSE LET row == [id |-> Len(vehs) + 1, customer_id |-> customer_id,
                     plate_number |-> plate_number]
         IN Out(Append(vehs, row), Return(row))

\* Mutant: the row stays, without its worker, when the worker's foreign key
\* fails
create_jobKeepsRow(vehs, usrs, jbs, vehicle_id, description, assigned_worker, t) ==
    IF ~jobs_vehicle_id_fkey(vehs, vehicle_id) THEN Out(jbs, ReturnNone(NoJob))
    ELSE LET row == [id |-> Len(jbs) + 1, vehicle_id |-> vehicle_id,
                     assigned_worker |-> assigned_worker, description |-> description,
                     status |-> jobs_status_default,
                     created_at |-> jobs_created_at_default(t),
                     updated_at |-> jobs_updated_at_default(t)]
         IN IF ~jobs_assigned_worker_fkey(usrs, assigned_worker)
            THEN Out(Append(jbs, [row EXCEPT !.assigned_worker = 0]), ReturnNone(NoJob))
            ELSE Out(Append(jbs, row), Return(row))

\* INSERT INTO jobs ... RETURNING; any exception is rolled back and answered
\* with None.  t is the reading of the clock the row is stamped with.
create_job(vehs, usrs, jbs, vehicle_id, description, assigned_worker, t) ==
    IF \/ ~jobs_vehicle_id_fkey(vehs, vehicle_id)
       \/ ~jobs_assigned_worker_fkey(usrs, assigned_worker)
    THEN Out(jbs, ReturnNone(NoJob))
    ELSE LET row == [id |-> Len(jbs) + 1, vehicle_id |-> vehicle_id,
                     assigned_worker |-> assigned_worker, description |-> description,
                     status |-> jobs_status_default,
                     created_at |-> jobs_created_at_default(t),
                     updated_at |-> jobs_updated_at_default(t)]
         IN Out(Append(jbs, row), Return(row))

\* Mutant: the insert resolves a conflict on job_id by updating the row
create_invoiceUpserts(jbs, invs, job_id, total_amount, t) ==
    IF ~invoices_job_id_fkey(jbs, job_id) THEN Out(invs, ReturnNone(NoInvoice))
    ELSE IF ~invoices_job_id_key(invs, job_id)
    THEN LET i == CHOOSE k \in DOMAIN invs : invs[k].job_id = job_id
             row == [invs[i] EXCEPT !.total_amount = total_amount]
         IN Out([invs EXCEPT ![i] = row], Return(row))
    ELSE LET row == [id |-> Len(invs) + 1, job_id |-> job_id,
                     total_amount |-> total_amount, is_paid |-> invoices_is_paid_default,
                     created_at |-> invoices_created_at_default(t)]
         IN Out(Append(invs, row), Return(row))

\* Mutant: UniqueViolation is not caught and leaves the query
create_invoiceRaises(jbs, invs, job_id, total_amount, t) ==
    IF ~invoices_job_id_fkey(jbs, job_id) THEN Out(invs, ReturnNone(NoInvoice))
    ELSE IF ~invoices_job_id_key(invs, job_id)
    THEN Out(invs, Raise("UniqueViolation", NoInvoice))
    ELSE LET row == [id |-> Len(invs) + 1, job_id |-> job_id,
                     total_amount |-> total_amount, is_paid |-> invoices_is_paid_default,
                     created_at |-> invoices_created_at_default(t)]
         IN Out(Append(invs, row), Return(row))

\* Mutant: only a completed job is invoiced
create_invoiceCompletedOnly(jbs, invs, job_id, total_amount, t) ==
    IF ~invoices_job_id_fkey(jbs, job_id) THEN Out(invs, ReturnNone(NoInvoice))
    ELSE IF ~invoices_job_id_key(invs, job_id) THEN Out(invs, ReturnNone(NoInvoice))
    ELSE IF jbs[job_id].status # "completed" THEN Out(invs, ReturnNone(NoInvoice))
    ELSE LET row == [id |-> Len(invs) + 1, job_id |-> job_id,
                     total_amount |-> total_amount, is_paid |-> invoices_is_paid_default,
                     created_at |-> invoices_created_at_default(t)]
         IN Out(Append(invs, row), Return(row))

\* INSERT INTO invoices ... RETURNING; UniqueViolation, like any other
\* exception, is rolled back and answered with None
create_invoice(jbs, invs, job_id, total_amount, t) ==
    IF ~invoices_job_id_fkey(jbs, job_id) THEN Out(invs, ReturnNone(NoInvoice))
    ELSE IF ~invoices_job_id_key(invs, job_id) THEN Out(invs, ReturnNone(NoInvoice))
    ELSE LET row == [id |-> Len(invs) + 1, job_id |-> job_id,
                     total_amount |-> total_amount, is_paid |-> invoices_is_paid_default,
                     created_at |-> invoices_created_at_default(t)]
         IN Out(Append(invs, row), Return(row))

\* An Optional[int] or Optional[float] argument
NoInt == [given |-> FALSE, val |-> 0]
SomeInt(n) == [given |-> TRUE, val |-> n]

\* Mutant: the UPDATE writes every column, a phone that is left out as NULL
update_customerClearsPhone(custs, customer_id, full_name, phone, is_active) ==
    IF full_name = None /\ phone = None /\ ~is_active.given
    THEN Out(custs, ReturnNone(NoCustomer))
    ELSE IF customer_id \notin DOMAIN custs THEN Out(custs, ReturnNone(NoCustomer))
    ELSE LET row == [custs[customer_id] EXCEPT
                        !.full_name = IF full_name # None THEN full_name ELSE @,
                        !.phone = phone,
                        !.is_active = IF is_active.given THEN is_active.val ELSE @]
         IN Out([custs EXCEPT ![customer_id] = row], Return(row))

\* Mutant: is_active = FALSE deletes the row
update_customerDeletes(custs, customer_id, full_name, phone, is_active) ==
    IF full_name = None /\ phone = None /\ ~is_active.given
    THEN Out(custs, ReturnNone(NoCustomer))
    ELSE IF customer_id \notin DOMAIN custs THEN Out(custs, ReturnNone(NoCustomer))
    ELSE LET row == [custs[customer_id] EXCEPT
                        !.full_name = IF full_name # None THEN full_name ELSE @,
                        !.phone = IF phone # None THEN phone ELSE @,
                        !.is_active = IF is_active.given THEN is_active.val ELSE @]
         IN IF is_active.given /\ ~is_active.val
            THEN Out(SubSeq(custs, 1, customer_id - 1)
                       \o SubSeq(custs, customer_id + 1, Len(custs)), Return(row))
            ELSE Out([custs EXCEPT ![customer_id] = row], Return(row))

\* UPDATE customers SET <the fields that are not None> WHERE id = %s
\* RETURNING; no statement is run when every field is None
update_customer(custs, customer_id, full_name, phone, is_active) ==
    IF full_name = None /\ phone = None /\ ~is_active.given
    THEN Out(custs, ReturnNone(NoCustomer))
    ELSE IF customer_id \notin DOMAIN custs THEN Out(custs, ReturnNone(NoCustomer))
    ELSE LET row == [custs[customer_id] EXCEPT
                        !.full_name = IF full_name # None THEN full_name ELSE @,
                        !.phone = IF phone # None THEN phone ELSE @,
                        !.is_active = IF is_active.given THEN is_active.val ELSE @]
         IN Out([custs EXCEPT ![customer_id] = row], Return(row))

\* Mutant: the UPDATE writes every column, a worker that is left out as NULL
update_jobUnassigns(jbs, usrs, job_id, assigned_worker, description, status, t) ==
    IF ~assigned_worker.given /\ description = None /\ status = None
    THEN Out(jbs, ReturnNone(NoJob))
    ELSE IF job_id \notin DOMAIN jbs THEN Out(jbs, ReturnNone(NoJob))
    ELSE IF assigned_worker.given /\ ~jobs_assigned_worker_fkey(usrs, assigned_worker.val)
    THEN Out(jbs, ReturnNone(NoJob))
    ELSE LET row == [jbs[job_id] EXCEPT
                        !.assigned_worker = IF assigned_worker.given
                                            THEN assigned_worker.val ELSE 0,
                        !.description = IF description # None THEN description ELSE @,
                        !.status = IF status # None THEN status ELSE @]
             stamped == jobs_updated_at_trigger(row, t)
         IN Out([jbs EXCEPT ![job_id] = stamped], Return(stamped))

\* Mutant: the statement is run for an empty body too (updated_at is always
\* among the SET clauses)
update_jobTouchesWhenEmpty(jbs, usrs, job_id, assigned_worker, description, status, t) ==
    IF job_id \notin DOMAIN jbs THEN Out(jbs, ReturnNone(NoJob))
    ELSE IF assigned_worker.given /\ ~jobs_assigned_worker_fkey(usrs, assigned_worker.val)
    THEN Out(jbs, ReturnNone(NoJob))
    ELSE LET row == [jbs[job_id] EXCEPT
                        !.assigned_worker = IF assigned_worker.given
                                            THEN assigned_worker.val ELSE @,
                        !.description = IF description # None THEN description ELSE @,
                        !.status = IF status # None THEN status ELSE @]
             stamped == jobs_updated_at_trigger(row, t)
         IN Out([jbs EXCEPT ![job_id] = stamped], Return(stamped))

\* Mutant: a status that is left out is written as the default
update_jobResetsStatus(jbs, usrs, job_id, assigned_worker, description, status, t) ==
    IF ~assigned_worker.given /\ description = None /\ status = None
    THEN Out(jbs, ReturnNone(NoJob))
    ELSE IF job_id \notin DOMAIN jbs THEN Out(jbs, ReturnNone(NoJob))
    ELSE IF assigned_worker.given /\ ~jobs_assigned_worker_fkey(usrs, assigned_worker.val)
    THEN Out(jbs, ReturnNone(NoJob))
    ELSE LET row == [jbs[job_id] EXCEPT
                        !.assigned_worker = IF assigned_worker.given
                                            THEN assigned_worker.val ELSE @,
                        !.description = IF description # None THEN description ELSE @,
                        !.status = IF status # None THEN status ELSE jobs_status_default]
             stamped == jobs_updated_at_trigger(row, t)
         IN Out([jbs EXCEPT ![job_id] = stamped], Return(stamped))

\* Mutant: a job that is completed or cancelled keeps its status
update_jobFinalStatus(jbs, usrs, job_id, assigned_worker, description, status, t) ==
    IF ~assigned_worker.given /\ description = None /\ status = None
    THEN Out(jbs, ReturnNone(NoJob))
    ELSE IF job_id \notin DOMAIN jbs THEN Out(jbs, ReturnNone(NoJob))
    ELSE IF assigned_worker.given /\ ~jobs_assigned_worker_fkey(usrs, assigned_worker.val)
    THEN Out(jbs, ReturnNone(NoJob))
    ELSE IF status # None /\ jbs[job_id].status \in {"completed", "cancelled"}
    THEN Out(jbs, ReturnNone(NoJob))
    ELSE LET row == [jbs[job_id] EXCEPT
                        !.assigned_worker = IF assigned_worker.given
                                            THEN assigned_worker.val ELSE @,
                        !.description = IF description # None THEN description ELSE @,
                        !.status = IF status # None THEN status ELSE @]
             stamped == jobs_updated_at_trigger(row, t)
         IN Out([jbs EXCEPT ![job_id] = stamped], Return(stamped))

\* UPDATE jobs SET <the fields that are not None> WHERE id = %s RETURNING;
\* no statement is run when every field is None; an exception (the foreign
\* key of assigned_worker) is rolled back and answered with None.  The
\* trigger stamps the row with t, the reading of the clock.
update_job(jbs, usrs, job_id, assigned_worker, description, status, t) ==
    IF ~assigned_worker.given /\ description = None /\ status = None
    THEN Out(jbs, ReturnNone(NoJob))
    ELSE IF job_id \notin DOMAIN jbs THEN Out(jbs, ReturnNone(NoJob))
    ELSE IF assigned_worker.given /\ ~jobs_assigned_worker_fkey(usrs, assigned_worker.val)
    THEN Out(jbs, ReturnNone(NoJob))
    ELSE LET row == [jbs[job_id] EXCEPT
                        !.assigned_worker = IF assigned_worker.given
                                            THEN assigned_worker.val ELSE @,
                        !.description = IF description # None THEN description ELSE @,
                        !.status = IF status # None THEN status ELSE @]
             stamped == jobs_updated_at_trigger(row, t)
         IN Out([jbs EXCEPT ![job_id] = stamped], Return(stamped))

\* SELECT ... FROM invoices WHERE job_id = %s; fetchone()
get_invoice_by_job(invs, job_id) ==
    IF \E i \in DOMAIN invs : invs[i].job_id = job_id
    THEN Return(invs[CHOOSE i \in DOMAIN invs : invs[i].job_id = job_id])
    ELSE ReturnNone(NoInvoice)

\* Mutant: an amount that is left out is written as zero
update_invoiceZeroesAmount(invs, invoice_id, total_amount, is_paid) ==
    IF ~total_amount.given /\ ~is_paid.given THEN Out(invs, ReturnNone(NoInvoice))
    ELSE IF invoice_id \notin DOMAIN invs THEN Out(invs, ReturnNone(NoInvoice))
    ELSE LET row == [invs[invoice_id] EXCEPT
                        !.total_amount = IF total_amount.given THEN total_amount.val ELSE 0,
                        !.is_paid = IF is_paid.given THEN is_paid.val ELSE @]
         IN Out([invs EXCEPT ![invoice_id] = row], Return(row))

\* UPDATE invoices SET <the fields that are not None> WHERE id = %s
\* RETURNING; no statement is run when every field is None
update_invoice(invs, invoice_id, total_amount, is_paid) ==
    IF ~total_amount.given /\ ~is_paid.given THEN Out(invs, ReturnNone(NoInvoice))
    ELSE IF invoice_id \notin DOMAIN invs THEN Out(invs, ReturnNone(NoInvoice))
    ELSE LET row == [invs[invoice_id] EXCEPT
                        !.total_amount = IF total_amount.given THEN total_amount.val ELSE @,
                        !.is_paid = IF is_paid.given THEN is_paid.val ELSE @]
         IN Out([invs EXCEPT ![invoice_id] = row], Return(row))

\* INSERT INTO job_notes ... RETURNING; any exception is rolled back and
\* answered with None
create_job_note(jbs, usrs, nts, job_id, worker_id, note, t) ==
    IF \/ ~job_notes_job_id_fkey(jbs, job_id)
       \/ ~job_notes_worker_id_fkey(usrs, worker_id)
    THEN Out(nts, ReturnNone(NoNote))
    ELSE LET row == [id |-> Len(nts) + 1, job_id |-> job_id, worker_id |-> worker_id,
                     note |-> note, created_at |-> job_notes_created_at_default(t)]
         IN Out(Append(nts, row), Return(row))

\* Mutant: ORDER BY created_at DESC
get_notes_by_jobDescending(nts, job_id) ==
    LET match == {i \in DOMAIN nts : nts[i].job_id = job_id}
        n == Cardinality(match)
    IN { [k \in 1..n |-> nts[f[k]]] :
           f \in { g \in [1..n -> match] :
                     /\ \A a, b \in 1..n : a # b => g[a] # g[b]
                     /\ \A a, b \in 1..n :
                           a < b => nts[g[a]].created_at >= nts[g[b]].created_at } }

\* SELECT ... FROM job_notes WHERE job_id = %s ORDER BY created_at ASC: every
\* list the statement may return, rows of equal created_at in either order
get_notes_by_job(nts, job_id) ==
    LET match == {i \in DOMAIN nts : nts[i].job_id = job_id}
        n == Cardinality(match)
    IN { [k \in 1..n |-> nts[f[k]]] :
           f \in { g \in [1..n -> match] :
                     /\ \A a, b \in 1..n : a # b => g[a] # g[b]
                     /\ \A a, b \in 1..n :
                           a < b => nts[g[a]].created_at <= nts[g[b]].created_at } }

-----------------------------------------------------------------------------
(* Authenticator *)

\* Mutant: the is_active check is left out
authenticate_userSkipsActive(tbl, username, password) ==
    LET user == get_user_by_username(tbl, username)
    IN IF ~user.some THEN ReturnNone(NoUser)
       ELSE LET ok == verify_password(password, user.val.password_hash)
            IN IF ok.exc # "none" THEN Raise(ok.exc, NoUser)
               ELSE IF ~ok.val THEN ReturnNone(NoUser)
               ELSE Return(user.val)

authenticate_user(tbl, username, password) ==
    LET user == get_user_by_username(tbl, username)
    IN IF ~user.some THEN ReturnNone(NoUser)
       ELSE IF ~user.val.is_active THEN ReturnNone(NoUser)
       ELSE LET ok == verify_password(password, user.val.password_hash)
            IN IF ok.exc # "none" THEN Raise(ok.exc, NoUser)
               ELSE IF ~ok.val THEN ReturnNone(NoUser)
               ELSE Return(user.val)

\* create_token_response(user): the token of the response body
create_token_response(user, t) ==
    create_access_token([user_id |-> IntClaim(user.id), username |-> user.username,
                         role |-> user.role], NoDelta, t)

-----------------------------------------------------------------------------
(* Access guard *)

\* What a dependency or a handler answers: an HTTP status with its detail;
\* branch names the branch of the code that produced it
Answer(status, detail, branch, user) ==
    [status |-> status, detail |-> detail, branch |-> branch, user |-> user]

credentials_exception(branch) ==
    Answer(401, "Could not validate credentials", branch, NoView)

\* An exception no handler catches: the framework answers 500
ServerError(exc) == Answer(500, "Internal Server Error", exc, NoView)

\* Mutant: the user is read again but the role is the one in the token
get_current_userRoleFromClaims(token, t, tbl) ==
    LET token_data == decode_access_token(token, t)
    IN IF token_data.exc # "none" THEN ServerError(token_data.exc)
       ELSE IF ~token_data.some THEN credentials_exception("token")
       ELSE LET user == get_user_by_id(tbl, token_data.val.user_id)
            IN IF ~user.some THEN credentials_exception("no_user")
               ELSE IF ~user.val.is_active THEN credentials_exception("inactive")
               ELSE Answer(200, None, "authenticated",
                           [user.val EXCEPT !.role = token_data.val.role])

\* Mutant: the guard trusts the claims instead of reading the user again
get_current_userTrustsClaims(token, t, tbl) ==
    LET token_data == decode_access_token(token, t)
    IN IF token_data.exc # "none" THEN ServerError(token_data.exc)
       ELSE IF ~token_data.some THEN credentials_exception("token")
       ELSE Answer(200, None, "authenticated",
                   [id |-> token_data.val.user_id, username |-> token_data.val.username,
                    role |-> token_data.val.role, is_active |-> TRUE])

get_current_user(token, t, tbl) ==
    LET token_data == decode_access_token(token, t)
    IN IF token_data.exc # "none" THEN ServerError(token_data.exc)
       ELSE IF ~token_data.some THEN credentials_exception("token")
       ELSE LET user == get_user_by_id(tbl, token_data.val.user_id)
            IN IF ~user.some THEN credentials_exception("no_user")
               ELSE IF ~user.val.is_active THEN credentials_exception("inactive")
               ELSE Answer(200, None, "authenticated", user.val)

\* Mutant: the admin policy tests the roles of the worker policy
get_current_active_adminAnyRole(current) ==
    IF current.status # 200 THEN current
    ELSE IF current.user.role \notin {"worker", "admin"}
         THEN Answer(403, "Admin access required", "role", NoView)
         ELSE current

get_current_active_admin(current) ==
    IF current.status # 200 THEN current
    ELSE IF current.user.role # "admin"
         THEN Answer(403, "Admin access required", "role", NoView)
         ELSE current

\* Mutant: the worker policy admits the role worker only
get_current_active_workerOnly(current) ==
    IF current.status # 200 THEN current
    ELSE IF current.user.role \notin {"worker"}
         THEN Answer(403, "Worker or Admin access required", "role", NoView)
         ELSE current

get_current_active_worker(current) ==
    IF current.status # 200 THEN current
    ELSE IF current.user.role \notin {"worker", "admin"}
         THEN Answer(403, "Worker or Admin access required", "role", NoView)
         ELSE current

-----------------------------------------------------------------------------
(* Requests *)

Workers == {1, 2}

\* Rows a table may grow to
MaxCustomers == 1
MaxVehicles == 1
MaxJobs == 1
MaxNotes == 3
\* The requests of a specification that serves one request at a time
OneWorker == {1}

Usernames == {"alice", "bob"}
\* Registration bodies use the first password; login attempts try both
RegisterPasswords == {"pw123456"}
Passwords == {"pw123456", "letmein"}
Salts == {1}

\* main.py: the dependency each route declares
Dependency(ep) ==
    CASE ep \in {"register", "login"} -> "anonymous"
      [] ep \in {"me", "get_job_invoice", "get_job_notes"} -> "get_current_user"
      [] ep \in {"list_users", "get_user", "update_user"} -> "get_current_active_admin"
      [] OTHER -> "get_current_active_worker"

\* The dependency chain of a route, evaluated on the bearer token
Guard(ep, token, t, tbl) ==
    LET current == get_current_user(token, t, tbl)
    IN CASE Dependency(ep) = "get_current_active_admin" -> get_current_active_admin(current)
         [] Dependency(ep) = "get_current_active_worker" -> get_current_active_worker(current)
         [] OTHER -> current

\* What is kept of a request body: the body of a registration between its
\* two statements, the credentials of a login and the id a creation refers
\* to with their responses
\* to with their responses, the id and the number of fields an update supplies
NoArg == [username |-> None, password |-> None, role |-> None, id |-> 0, fields |-> 0]
Ref(id) == [username |-> None, password |-> None, role |-> None, id |-> id, fields |-> 0]
Body(id, supplied) ==
    [username |-> None, password |-> None, role |-> None, id |-> id,
     fields |-> Cardinality({i \in DOMAIN supplied : supplied[i]})]

Idle == [pc |-> "idle", ep |-> None, user |-> NoView, arg |-> NoArg,
         status |-> 0, detail |-> None, branch |-> None, token |-> NoToken]

\* The response leaves and the worker is free again
RespondTo(r, ep, arg, answer, token) ==
    slot' = [slot EXCEPT ![r] = [pc |-> "idle", ep |-> ep, user |-> NoView,
                                 arg |-> arg, status |-> answer.status,
                                 detail |-> answer.detail, branch |-> answer.branch,
                                 token |-> token]]

Respond(r, ep, answer, token) == RespondTo(r, ep, NoArg, answer, token)

\* The handler is entered with current_user
Enter(r, ep, pc, user, arg) ==
    slot' = [slot EXCEPT ![r] = [pc |-> pc, ep |-> ep, user |-> user, arg |-> arg,
                                 status |-> 0, detail |-> None, branch |-> None,
                                 token |-> NoToken]]

\* A request with an Authorization: Bearer header reaches a protected route.
\* /auth/me has no statement of its own and answers at once.
Request(r, ep, token) ==
    /\ slot[r].pc = "idle"
    /\ LET a == Guard(ep, token, now, users)
       IN IF a.status # 200 THEN Respond(r, ep, a, NoToken)
          ELSE IF ep = "me" THEN Respond(r, ep, Answer(200, None, "ok", NoView), NoToken)
          ELSE Enter(r, ep, "handler", a.user, NoArg)
    /\ UNCHANGED <<store, now, probe>>

\* A request without credentials: HTTPBearer() answers before any dependency
\* of this repository runs, 403 or 401 depending on the framework's version
RequestNoCredentials(r, ep, status) ==
    /\ slot[r].pc = "idle"
    /\ Dependency(ep) # "anonymous"
    /\ Respond(r, ep, Answer(status, "Not authenticated", "no_credentials", NoView), NoToken)
    /\ UNCHANGED <<store, now, probe>>

\* POST /auth/register, first statement: the username pre-check
RegisterCheck(r, username, password, role) ==
    /\ slot[r].pc = "idle"
    /\ LET existing_user == get_user_by_username(users, username)
       IN IF existing_user.some
          THEN Respond(r, "register",
                       Answer(400, "Username already registered", "existing", NoView), NoToken)
          ELSE Enter(r, "register", "insert", NoView,
                     [username |-> username, password |-> password, role |-> role,
                      id |-> 0, fields |-> 0])
    /\ UNCHANGED <<store, now, probe>>

\* POST /auth/register, second statement: hash, insert, token
RegisterInsert(r, salt) ==
    /\ slot[r].pc = "insert"
    /\ LET arg == slot[r].arg
           q == create_user(users, arg.username, hash_password(arg.password, salt), arg.role)
       IN /\ users' = q.tbl
          /\ IF ~q.ret.some
             THEN Respond(r, "register",
                          Answer(500, "Failed to create user", "create_user", NoView), NoToken)
             ELSE Respond(r, "register", Answer(201, None, "ok", q.ret.val),
                          create_token_response(q.ret.val, now))
    /\ UNCHANGED <<customers, vehicles, jobs, invoices, notes, now, probe>>

\* Mutant: a locked account is told so
loginTellsInactive(tbl, username, password, t) ==
    LET user == authenticate_user(tbl, username, password)
        row == get_user_by_username(tbl, username)
    IN IF user.exc # "none" THEN [answer |-> ServerError(user.exc), token |-> NoToken]
       ELSE IF ~user.some /\ row.some /\ ~row.val.is_active
       THEN [answer |-> Answer(403, "Account disabled", "inactive", NoView),
             token |-> NoToken]
       ELSE IF ~user.some
       THEN [answer |-> Answer(401, "Incorrect username or password", "credentials", NoView),
             token |-> NoToken]
       ELSE [answer |-> Answer(200, None, "ok", View(user.val)),
             token |-> create_token_response(user.val, t)]

\* POST /auth/login: the answer and the token of its body
login(tbl, username, password, t) ==
    LET user == authenticate_user(tbl, username, password)
    IN IF user.exc # "none" THEN [answer |-> ServerError(user.exc), token |-> NoToken]
       ELSE IF ~user.some
       THEN [answer |-> Answer(401, "Incorrect username or password", "credentials", NoView),
             token |-> NoToken]
       ELSE [answer |-> Answer(200, None, "ok", View(user.val)),
             token |-> create_token_response(user.val, t)]

\* The credentials of the attempt stay on record with its response
Login(r, username, password) ==
    /\ slot[r].pc = "idle"
    /\ LET out == login(users, username, password, now)
       IN RespondTo(r, "login",
                    [username |-> username, password |-> password, role |-> None, id |-> 0,
                     fields |-> 0],
                    out.answer, out.token)
    /\ UNCHANGED <<store, now, probe>>

\* GET /users
ListUsers(r) ==
    /\ slot[r].pc = "handler" /\ slot[r].ep = "list_users"
    /\ Respond(r, "list_users", Answer(200, None, "ok", NoView), NoToken)
    /\ UNCHANGED <<store, now, probe>>

\* GET /users/{user_id}
GetUser(r, user_id) ==
    /\ slot[r].pc = "handler" /\ slot[r].ep = "get_user"
    /\ LET user == get_user_by_id(users, user_id)
       IN IF ~user.some
          THEN Respond(r, "get_user", Answer(404, "User not found", "not_found", NoView), NoToken)
          ELSE Respond(r, "get_user", Answer(200, None, "ok", user.val), NoToken)
    /\ UNCHANGED <<store, now, probe>>

\* PATCH /users/{user_id}
UpdateUser(r, user_id, role, is_active) ==
    /\ slot[r].pc = "handler" /\ slot[r].ep = "update_user"
    /\ LET q == update_user(users, user_id, role, is_active)
       IN /\ users' = q.tbl
          /\ IF ~q.ret.some
             THEN Respond(r, "update_user",
                          Answer(404, "User not found or no changes made", "none", NoView),
                          NoToken)
             ELSE Respond(r, "update_user", Answer(200, None, "ok", q.ret.val), NoToken)
    /\ UNCHANGED <<customers, vehicles, jobs, invoices, notes, now, probe>>

\* GET /my-jobs
MyJobs(r) ==
    /\ slot[r].pc = "handler" /\ slot[r].ep = "my_jobs"
    /\ Respond(r, "my_jobs", Answer(200, None, "ok", NoView), NoToken)
    /\ UNCHANGED <<store, now, probe>>

\* What a creating handler answers for the value its query returned: 201
\* with the row, the route's HTTPException for None, and 500 for an
\* exception that leaves the query
Created(ret, status, detail) ==
    IF ret.exc # "none" THEN ServerError(ret.exc)
    ELSE IF ~ret.some THEN Answer(status, detail, "none", NoView)
    ELSE Answer(201, None, "ok", NoView)

\* POST /customers
CreateCustomer(r, full_name, phone) ==
    /\ slot[r].pc = "handler" /\ slot[r].ep = "create_customer"
    /\ Len(customers) < MaxCustomers
    /\ LET q == create_customer(customers, full_name, phone)
       IN /\ customers' = q.tbl
          /\ Respond(r, "create_customer",
                     Created(q.ret, 500, "Failed to create customer"), NoToken)
    /\ UNCHANGED <<users, vehicles, jobs, invoices, notes, now, probe>>

\* POST /vehicles
CreateVehicle(r, customer_id, plate_number) ==
    /\ slot[r].pc = "handler" /\ slot[r].ep = "create_vehicle"
    /\ Len(vehicles) < MaxVehicles
    /\ LET q == create_vehicle(customers, vehicles, customer_id, plate_number)
       IN /\ vehicles' = q.tbl
          /\ RespondTo(r, "create_vehicle", Ref(customer_id),
                       Created(q.ret, 400, "Failed to create vehicle. Customer may not exist."),
                       NoToken)
    /\ UNCHANGED <<users, customers, jobs, invoices, notes, now, probe>>

\* POST /jobs
CreateJob(r, vehicle_id, description, assigned_worker) ==
    /\ slot[r].pc = "handler" /\ slot[r].ep = "create_job"
    /\ Len(jobs) < MaxJobs
    /\ LET q == create_job(vehicles, users, jobs, vehicle_id, description, assigned_worker, now)
       IN /\ jobs' = q.tbl
          /\ Respond(r, "create_job",
                     Created(q.ret, 400, "Failed to create job. Vehicle may not exist."),
                     NoToken)
    /\ UNCHANGED <<users, customers, vehicles, invoices, notes, now, probe>>

\* POST /invoices: the invoices table after it and the answer
create_new_invoice(jbs, invs, job_id, total_amount, t) ==
    LET q == create_invoice(jbs, invs, job_id, total_amount, t)
    IN [tbl |-> q.tbl,
        answer |-> Created(q.ret, 400,
                           "Failed to create invoice. Job may not exist or already has an invoice.")]

CreateInvoice(r, job_id, total_amount) ==
    /\ slot[r].pc = "handler" /\ slot[r].ep = "create_invoice"
    /\ LET out == create_new_invoice(jobs, invoices, job_id, total_amount, now)
       IN /\ invoices' = out.tbl
          /\ RespondTo(r, "create_invoice", Ref(job_id), out.answer, NoToken)
    /\ UNCHANGED <<users, customers, vehicles, jobs, notes, now, probe>>

\* What an updating handler answers for the value its query returned: 200
\* with the row, and the route's 404 for None
Updated(ret, detail) ==
    IF ret.exc # "none" THEN ServerError(ret.exc)
    ELSE IF ~ret.some THEN Answer(404, detail, "none", NoView)
    ELSE Answer(200, None, "ok", NoView)

\* A request takes time: its statement reads the clock after it has moved
\* on from every earlier reading
Stamp(horizon) ==
    /\ now < horizon
    /\ now' = now + 1

\* PATCH /customers/{customer_id}
UpdateCustomer(r, customer_id, full_name, phone, is_active, horizon) ==
    /\ slot[r].pc = "handler" /\ slot[r].ep = "update_customer"
    /\ Stamp(horizon)
    /\ LET q == update_customer(customers, customer_id, full_name, phone, is_active)
       IN /\ customers' = q.tbl
          /\ RespondTo(r, "update_customer",
                       Body(customer_id, <<full_name # None, phone # None, is_active.given>>),
                       Updated(q.ret, "Customer not found or no changes made"), NoToken)
    /\ UNCHANGED <<users, vehicles, jobs, invoices, notes, probe>>

\* PATCH /jobs/{job_id}: the jobs table after it and the answer
update_job_info(jbs, usrs, job_id, assigned_worker, description, status, t) ==
    LET q == update_job(jbs, usrs, job_id, assigned_worker, description, status, t)
    IN [tbl |-> q.tbl, answer |-> Updated(q.ret, "Job not found or no changes made")]

UpdateJob(r, job_id, assigned_worker, description, status, horizon) ==
    /\ slot[r].pc = "handler" /\ slot[r].ep = "update_job"
    /\ Stamp(horizon)
    /\ LET out == update_job_info(jobs, users, job_id, assigned_worker, description,
                                  status, now')
       IN /\ jobs' = out.tbl
          /\ RespondTo(r, "update_job",
                       Body(job_id, <<assigned_worker.given, description # None,
                                      status # None>>),
                       out.answer, NoToken)
    /\ UNCHANGED <<users, customers, vehicles, invoices, notes, probe>>

\* PATCH /invoices/{invoice_id}
UpdateInvoice(r, invoice_id, total_amount, is_paid, horizon) ==
    /\ slot[r].pc = "handler" /\ slot[r].ep = "update_invoice"
    /\ Stamp(horizon)
    /\ LET q == update_invoice(invoices, invoice_id, total_amount, is_paid)
       IN /\ invoices' = q.tbl
          /\ RespondTo(r, "update_invoice",
                       Body(invoice_id, <<total_amount.given, is_paid.given>>),
                       Updated(q.ret, "Invoice not found or no changes made"), NoToken)
    /\ UNCHANGED <<users, customers, vehicles, jobs, notes, probe>>

\* POST /job-notes: the note is written in the name of current_user
AddJobNote(r, job_id, note, limit) ==
    /\ slot[r].pc = "handler" /\ slot[r].ep = "add_job_note"
    /\ Len(notes) < limit
    /\ LET q == create_job_note(jobs, users, notes, job_id, slot[r].user.id, note, now)
       IN /\ notes' = q.tbl
          /\ RespondTo(r, "add_job_note", Ref(job_id),
                       Created(q.ret, 400, "Failed to create job note. Job may not exist."),
                       NoToken)
    /\ UNCHANGED <<users, customers, vehicles, jobs, invoices, now, probe>>

\* The body of the last GET /jobs/{job_id}/notes
NoNotesProbe == [f |-> None, job_id |-> 0, res |-> <<>>]

\* GET /jobs/{job_id}/notes
GetJobNotes(r, job_id) ==
    /\ slot[r].pc = "handler" /\ slot[r].ep = "get_job_notes"
    /\ \E res \in get_notes_by_job(notes, job_id) :
          probe' = [f |-> "get_notes_by_job", job_id |-> job_id, res |-> res]
    /\ RespondTo(r, "get_job_notes", Ref(job_id), Answer(200, None, "ok", NoView), NoToken)
    /\ UNCHANGED <<store, now>>

\* GET /jobs/{job_id}/invoice: the body is the invoice of the job
GetJobInvoice(r, job_id) ==
    /\ slot[r].pc = "handler" /\ slot[r].ep = "get_job_invoice"
    /\ LET invoice == get_invoice_by_job(invoices, job_id)
       IN IF ~invoice.some
          THEN /\ RespondTo(r, "get_job_invoice", Ref(job_id),
                            Answer(404, "Invoice not found for this job", "not_found", NoView),
                            NoToken)
               /\ UNCHANGED probe
          ELSE /\ RespondTo(r, "get_job_invoice", Ref(job_id),
                            Answer(200, None, "ok", NoView), NoToken)
               /\ probe' = [f |-> "get_invoice_by_job", job_id |-> job_id,
                            res |-> invoice.val]
    /\ UNCHANGED <<store, now>>

-----------------------------------------------------------------------------
(* Time *)

MaxDays == 1

\* A day and a second: what outlasts the default time-to-live
DayStep == Minutes(ACCESS_TOKEN_EXPIRE_MINUTES) + TicksPerSecond

\* The clock moves on by d ticks, up to the horizon of the specification
Tick(d, horizon) ==
    /\ now + d <= horizon
    /\ now' = now + d
    /\ UNCHANGED <<store, slot, probe>>

-----------------------------------------------------------------------------
(* The bearer strings a client may present *)

\* Every token create_token_response can have handed out for a stored user
\* up to now, whatever role the user had then
IssuedTokens(tbl, t) ==
    { create_access_token([user_id |-> IntClaim(tbl[i].id), username |-> tbl[i].username,
                           role |-> ro], NoDelta, t0) :
        i \in DOMAIN tbl, ro \in UserRole, t0 \in {k * DayStep : k \in 0..(t \div DayStep)} }

\* Strings the server never issued: a wrong signature, no JWT at all, a
\* payload without role, and payloads signed with SECRET_KEY that name an
\* unknown user, a role outside UserRole, or a user_id that is no integer
ForeignTokens(tbl, t) ==
    LET exp == Seconds(t) + 60
    IN { Token(TRUE, FALSE, IntClaim(1), "alice", "admin", exp),
         Token(FALSE, FALSE, NoClaim, None, None, 0),
         Token(TRUE, TRUE, IntClaim(1), "alice", None, exp),
         Token(TRUE, TRUE, IntClaim(Len(tbl) + 1), "carol", "admin", exp),
         Token(TRUE, TRUE, IntClaim(1), "alice", "manager", exp),
         Token(TRUE, TRUE, StrClaim, "alice", "admin", exp) }

BearerTokens(tbl, t) == IssuedTokens(tbl, t) \cup ForeignTokens(tbl, t)

-----------------------------------------------------------------------------
(* Authentication and user management *)

NoProbe == [f |-> None]

EmptyStore ==
    /\ users = <<>> /\ customers = <<>> /\ vehicles = <<>>
    /\ jobs = <<>> /\ invoices = <<>> /\ notes = <<>>

Init ==
    /\ EmptyStore
    /\ now = 0
    /\ slot = [r \in Workers |-> Idle]
    /\ probe = NoProbe

AuthEndpoints == {"me", "list_users", "get_user", "update_user", "my_jobs"}

Next ==
    \/ \E r \in OneWorker, ep \in AuthEndpoints, token \in BearerTokens(users, now) :
          Request(r, ep, token)
    \/ \E r \in OneWorker, ep \in AuthEndpoints, status \in {401, 403} :
          RequestNoCredentials(r, ep, status)
    \/ \E r \in OneWorker, username \in Usernames, password \in RegisterPasswords,
          role \in UserRole : RegisterCheck(r, username, password, role)
    \/ \E r \in OneWorker, salt \in Salts : RegisterInsert(r, salt)
    \/ \E r \in OneWorker, username \in Usernames \cup {"mallory"}, password \in Passwords :
          Login(r, username, password)
    \/ \E r \in OneWorker : ListUsers(r)
    \/ \E r \in OneWorker, user_id \in 1..(Len(users) + 1) : GetUser(r, user_id)
    \/ \E r \in OneWorker, user_id \in 1..(Len(users) + 1), role \in UserRole \cup {None},
          is_active \in OptBool : UpdateUser(r, user_id, role, is_active)
    \/ \E r \in OneWorker : MyJobs(r)
    \/ Tick(DayStep, MaxDays * DayStep)

Spec == Init /\ [][Next]_vars

-----------------------------------------------------------------------------
(* Properties of authentication and the access guard *)

LoginNames == Usernames \cup {"mallory"}

\* The token is one the server handed out to stored user u: signed with
\* SECRET_KEY, naming u's id and username
IssuedTo(token, tbl, u) ==
    /\ token.wf /\ token.signed
    /\ token.user_id = IntClaim(u) /\ u \in DOMAIN tbl
    /\ token.username = tbl[u].username
    /\ token.role \in UserRole

\* C1: once a user is inactive, every request that presents a token issued
\* to that user, unexpired and validly signed, is answered 401 by the access
\* guard and enters no handler; nothing in the store changes.
C1_DeactivatedTokenRejected ==
    [][\A r \in Workers :
          (slot[r].pc = "idle" /\ slot'[r] # slot[r] /\ slot'[r].ep \in AuthEndpoints)
          => \A token \in BearerTokens(users, now), u \in DOMAIN users :
                ( /\ IssuedTo(token, users, u)
                  /\ token.exp >= Seconds(now)
                  /\ ~users[u].is_active
                  /\ Request(r, slot'[r].ep, token) )
                => /\ slot'[r].pc = "idle"
                   /\ slot'[r].status = 401
                   /\ store' = store]_vars

\* A deactivated user's valid token was presented and answered 401
C1_Witness ==
    \E r \in Workers :
        /\ slot[r].pc = "idle" /\ slot[r].status = 401 /\ slot[r].branch = "inactive"
        /\ \E u \in DOMAIN users : ~users[u].is_active

\* The claims of the token fail to authenticate a request at time t: the
\* token does not decode to a claim set, or names no stored, active user
Unauthenticated(token, t, tbl) ==
    \/ ~token.wf \/ ~token.signed \/ token.exp < Seconds(t)
    \/ token.user_id.kind # "int" \/ token.username = None
    \/ token.role \notin UserRole
    \/ token.user_id.val \notin DOMAIN tbl
    \/ ~tbl[token.user_id.val].is_active

\* The role a route asks for is missing from the stored user the token names
Insufficient(ep, token, tbl) ==
    /\ Dependency(ep) = "get_current_active_admin"
    /\ tbl[token.user_id.val].role # "admin"

\* C3: a request that is not authenticated (invalid or expired token, user
\* missing or inactive) is always answered 401, whatever role the token
\* claims and whatever the route; 403 is answered to a token only when it
\* names a stored, active user whose role is insufficient.  (What the
\* framework answers to a request without any token is left aside.)
C3_UnauthorizedNeverForbidden ==
    [][\A r \in Workers :
          (slot[r].pc = "idle" /\ slot'[r] # slot[r] /\ slot'[r].ep \in AuthEndpoints)
          => /\ \A token \in BearerTokens(users, now) :
                   (Unauthenticated(token, now, users) /\ Request(r, slot'[r].ep, token))
                   => slot'[r].status = 401
             /\ (slot'[r].status = 403 /\ slot'[r].branch # "no_credentials")
                => \E token \in BearerTokens(users, now) :
                      /\ ~Unauthenticated(token, now, users)
                      /\ Insufficient(slot'[r].ep, token, users)
                      /\ Request(r, slot'[r].ep, token)]_vars

\* C4: authenticate_user returns None for an unknown username, for an
\* inactive user even with the right password, and for a password that does
\* not match the stored hash; it returns the stored row exactly when the
\* user exists, is active and the password matches.
C4_AuthenticateUser ==
    \A username \in LoginNames, password \in Passwords :
        LET res == authenticate_user(users, username, password)
            rows == {i \in DOMAIN users : users[i].username = username}
        IN /\ rows = {} => res = ReturnNone(NoUser)
           /\ \A i \in rows :
                LET matches == users[i].password_hash =
                                 hash_password(password, users[i].password_hash.salt)
                IN /\ ~users[i].is_active => res = ReturnNone(NoUser)
                   /\ ~matches => res = ReturnNone(NoUser)
                   /\ (users[i].is_active /\ matches) => res = Return(users[i])

\* A deactivated user logged in with the right password and was refused
C4_Witness ==
    \E r \in Workers, i \in DOMAIN users :
        /\ slot[r].ep = "login" /\ slot[r].status = 401
        /\ slot[r].arg.username = users[i].username
        /\ ~users[i].is_active
        /\ users[i].password_hash = hash_password(slot[r].arg.password,
                                                  users[i].password_hash.salt)

\* What the caller of login sees
Observable(answer) == <<answer.status, answer.detail>>

\* The same store without the username (the row renamed), and with the row
\* of the username deactivated
Unknown(tbl, username) ==
    [i \in DOMAIN tbl |-> IF tbl[i].username = username
                          THEN [tbl[i] EXCEPT !.username = "renamed"] ELSE tbl[i]]
Deactivated(tbl, username) ==
    [i \in DOMAIN tbl |-> IF tbl[i].username = username
                          THEN [tbl[i] EXCEPT !.is_active = FALSE] ELSE tbl[i]]

\* C5: a failed login looks the same (status and detail) whether the
\* username is unknown, the user is deactivated (right password or not), or
\* the password is wrong: stores that differ only in the existence or the
\* activity of the username answer a failed login alike.
C5_FailedLoginUniform ==
    \A username \in LoginNames, password \in Passwords :
        LET here == Observable(login(users, username, password, now).answer)
            unknown == Observable(login(Unknown(users, username), username, password, now).answer)
            inactive == Observable(login(Deactivated(users, username), username, password,
                                         now).answer)
            wrong == Observable(login(users, username, "not the password", now).answer)
        IN /\ unknown = inactive
           /\ unknown = wrong
           /\ here[1] # 200 => here = unknown

\* An active user's wrong password was refused while another user is inactive
C5_Witness ==
    \E r \in Workers, i \in DOMAIN users, j \in DOMAIN users :
        /\ slot[r].ep = "login" /\ slot[r].status = 401
        /\ slot[r].arg.username = users[i].username
        /\ users[i].is_active
        /\ users[i].password_hash # hash_password(slot[r].arg.password,
                                                  users[i].password_hash.salt)
        /\ ~users[j].is_active

-----------------------------------------------------------------------------
(* User management under concurrent requests: two workers, an admin and a *)
(* worker registered, a third user registering meanwhile                  *)

UserEndpoints == {"list_users", "get_user", "update_user"}

Registered(id, username, role) ==
    [id |-> id, username |-> username,
     password_hash |-> hash_password("pw123456", 1), role |-> role,
     is_active |-> users_is_active_default]

InitUsers ==
    /\ users = <<Registered(1, "alice", "admin"), Registered(2, "bob", "worker")>>
    /\ customers = <<>> /\ vehicles = <<>> /\ jobs = <<>> /\ invoices = <<>> /\ notes = <<>>
    /\ now = 0
    /\ slot = [r \in Workers |-> Idle]
    /\ probe = NoProbe

NextUsers ==
    \/ \E r \in Workers, ep \in UserEndpoints, token \in IssuedTokens(users, now) :
          Request(r, ep, token)
    \/ \E r \in Workers, role \in UserRole : RegisterCheck(r, "carol", "pw123456", role)
    \/ \E r \in Workers, salt \in Salts : RegisterInsert(r, salt)
    \/ \E r \in Workers : ListUsers(r)
    \/ \E r \in Workers, user_id \in 1..(Len(users) + 1) : GetUser(r, user_id)
    \/ \E r \in Workers, user_id \in 1..(Len(users) + 1), role \in UserRole \cup {None},
          is_active \in OptBool : UpdateUser(r, user_id, role, is_active)

SpecUsers == InitUsers /\ [][NextUsers]_vars

\* C2: the role or is_active of a stored user changes only in a step of
\* update_user run for a request whose guard returned an active admin; a
\* request authenticated as a worker on list users, get user or update user
\* is answered 403 and leaves the users table as it was.
C2_OnlyAdminChangesUsers ==
    [][/\ \A u \in DOMAIN users :
             ( \/ users'[u].role # users[u].role
               \/ users'[u].is_active # users[u].is_active )
             => \E r \in Workers :
                   /\ slot[r].pc = "handler" /\ slot[r].ep = "update_user"
                   /\ slot[r].user.role = "admin" /\ slot[r].user.is_active
                   /\ slot'[r].pc = "idle" /\ slot'[r].status = 200
       /\ \A r \in Workers :
             (slot[r].pc = "idle" /\ slot'[r] # slot[r] /\ slot'[r].ep \in UserEndpoints)
             => \A token \in IssuedTokens(users, now) :
                   ( /\ ~Unauthenticated(token, now, users)
                     /\ users[token.user_id.val].role = "worker"
                     /\ Request(r, slot'[r].ep, token) )
                   => /\ slot'[r].pc = "idle" /\ slot'[r].status = 403
                      /\ users' = users]_vars

\* A worker was refused on update_user, and an admin's update has
\* deactivated a user
C2_Witness ==
    /\ \E r \in Workers :
          slot[r].ep = "update_user" /\ slot[r].status = 403 /\ slot[r].branch = "role"
    /\ \E u \in DOMAIN users : ~users[u].is_active

-----------------------------------------------------------------------------
(* The entity store under concurrent requests: two workers, one worker    *)
(* account, customers, vehicles, jobs and invoices created in any order   *)

StoreEndpoints == {"create_customer", "create_vehicle", "create_job", "create_invoice"}

Amounts == {120, 250}

InitStore ==
    /\ users = <<Registered(1, "bob", "worker")>>
    /\ customers = <<>> /\ vehicles = <<>> /\ jobs = <<>> /\ invoices = <<>> /\ notes = <<>>
    /\ now = 0
    /\ slot = [r \in Workers |-> Idle]
    /\ probe = NoProbe

NextStore ==
    \/ \E r \in Workers, ep \in StoreEndpoints, token \in IssuedTokens(users, now) :
          Request(r, ep, token)
    \/ \E r \in Workers : CreateCustomer(r, "Bob", None)
    \/ \E r \in Workers, customer_id \in 1..(Len(customers) + 1) :
          CreateVehicle(r, customer_id, "ABC-1234")
    \/ \E r \in Workers, vehicle_id \in 1..(Len(vehicles) + 1),
          assigned_worker \in 0..(Len(users) + 1) :
          CreateJob(r, vehicle_id, "brake check", assigned_worker)
    \/ \E r \in Workers, job_id \in 1..(Len(jobs) + 1), total_amount \in Amounts :
          CreateInvoice(r, job_id, total_amount)

SpecStore == InitStore /\ [][NextStore]_vars

\* C9: create_vehicle for a customer_id that no customer has is answered
\* with the route's 400 rejection (no server error) and the vehicles table
\* is the same after the call as before it.
C9_VehicleNeedsCustomer ==
    [][\A r \in Workers :
          (slot[r].pc = "handler" /\ slot[r].ep = "create_vehicle" /\ slot'[r] # slot[r])
          => \A customer_id \in 1..(Len(customers) + 1) :
                ( /\ customer_id \notin DOMAIN customers
                  /\ CreateVehicle(r, customer_id, "ABC-1234") )
                => /\ slot'[r].status = 400
                   /\ slot'[r].detail = "Failed to create vehicle. Customer may not exist."
                   /\ vehicles' = vehicles]_vars

\* A vehicle was refused for a customer_id that no customer has
C9_Witness ==
    \E r \in Workers :
        /\ slot[r].pc = "idle" /\ slot[r].ep = "create_vehicle" /\ slot[r].status = 400
        /\ slot[r].arg.id \notin DOMAIN customers
        /\ vehicles = <<>>

\* At most one invoice per job_id
OneInvoicePerJob(invs) ==
    \A i, j \in DOMAIN invs : invs[i].job_id = invs[j].job_id => i = j

\* C10: after every step there is at most one invoice per job_id; a
\* create_invoice step either inserts one row for a job that had no invoice
\* and answers 201, or is rejected with 400 and changes nothing; in both
\* cases every invoice that existed stays as it was.  This holds for every
\* interleaving of the two workers' requests.
C10_OneInvoicePerJob ==
    [][/\ OneInvoicePerJob(invoices')
       /\ \A r \in Workers :
             (slot[r].pc = "handler" /\ slot[r].ep = "create_invoice" /\ slot'[r] # slot[r])
             => /\ \A i \in DOMAIN invoices : invoices'[i] = invoices[i]
                /\ \/ /\ slot'[r].status = 201
                      /\ Len(invoices') = Len(invoices) + 1
                      /\ invoices_job_id_key(invoices, invoices'[Len(invoices')].job_id)
                   \/ /\ slot'[r].status = 400
                      /\ invoices' = invoices]_vars

\* Two workers asked for an invoice of the same job: one has inserted it,
\* the other was rejected, and the row holds the amount of the first
C10_Witness ==
    \E r, q \in Workers :
        /\ slot[r].ep = "create_invoice" /\ slot[r].status = 201
        /\ slot[q].ep = "create_invoice" /\ slot[q].status = 400
        /\ slot[r].arg.id = slot[q].arg.id
        /\ \E i \in DOMAIN invoices : invoices[i].job_id = slot[r].arg.id

-----------------------------------------------------------------------------
(* The token codec on its own: a token is issued for a claim set and a    *)
(* time-to-live, or a string from elsewhere is presented; the clock moves *)
(* in ticks of a fraction of a second; the token is decoded               *)

MaxTicks == 6

ClaimSets ==
    [user_id : {IntClaim(1), IntClaim(2)}, username : Usernames, role : UserRole]

\* No time-to-live, timedelta(0), and positive ones of a fraction of a
\* second up to more than a second
Deltas == {NoDelta} \cup {Delta(d) : d \in 0..(TicksPerSecond + 1)}

NoCodecProbe ==
    [f |-> None, origin |-> None, token |-> NoToken, data |-> NoTokenData,
     ttl |-> NoDelta, issued |-> 0, at |-> 0, res |-> ReturnNone(NoTokenData)]

InitCodec ==
    /\ EmptyStore
    /\ now = 0
    /\ slot = [r \in Workers |-> Idle]
    /\ probe = NoCodecProbe

\* token = create_access_token(data, expires_delta)
Issue(data, expires_delta) ==
    /\ probe' = [f |-> "create_access_token", origin |-> "issued",
                 token |-> create_access_token(data, expires_delta, now),
                 data |-> [user_id |-> data.user_id.val, username |-> data.username,
                           role |-> data.role],
                 ttl |-> expires_delta, issued |-> now, at |-> now,
                 res |-> ReturnNone(NoTokenData)]
    /\ UNCHANGED <<store, now, slot>>

\* A bearer string that create_access_token did not make
Present(token) ==
    /\ probe' = [f |-> "presented", origin |-> "presented", token |-> token,
                 data |-> NoTokenData, ttl |-> NoDelta, issued |-> now, at |-> now,
                 res |-> ReturnNone(NoTokenData)]
    /\ UNCHANGED <<store, now, slot>>

\* decode_access_token(token)
Decode ==
    /\ probe.origin # None
    /\ probe' = [probe EXCEPT !.f = "decode_access_token", !.at = now,
                              !.res = decode_access_token(probe.token, now)]
    /\ UNCHANGED <<store, now, slot>>

NextCodec ==
    \/ \E data \in ClaimSets, expires_delta \in Deltas : Issue(data, expires_delta)
    \/ \E token \in ForeignTokens(users, now) : Present(token)
    \/ Decode
    \/ Tick(1, MaxTicks)

SpecCodec == InitCodec /\ [][NextCodec]_vars

\* The instant datetime.utcnow() + expires_delta of the token on probe
Expiry == probe.issued + probe.ttl.ticks

\* A token issued with a time-to-live above zero has been decoded
DecodedIssued ==
    /\ probe.f = "decode_access_token" /\ probe.origin = "issued"
    /\ probe.ttl.given /\ probe.ttl.ticks > 0

\* C6 as stated: decoding an issued token returns its claim set at every
\* time before the expiry instant and None at every time strictly after it.
C6_DecodeUntilExpiryInstant ==
    DecodedIssued
    => /\ probe.at < Expiry => probe.res = Return(probe.data)
       /\ probe.at > Expiry => probe.res = ReturnNone(NoTokenData)

\* C6 amended: decoding an issued token returns its claim set at every time
\* up to the end of the whole second that holds the expiry instant, and
\* None at every time in a later whole second.
C6_DecodeUntilExpirySecond ==
    DecodedIssued
    => /\ Seconds(probe.at) <= Seconds(Expiry) => probe.res = Return(probe.data)
       /\ Seconds(probe.at) > Seconds(Expiry) => probe.res = ReturnNone(NoTokenData)

\* A token decoded strictly after its expiry instant, in the same whole
\* second, gave back its claims, and one decoded a second later would not
C6_Witness ==
    /\ DecodedIssued
    /\ probe.at > Expiry /\ Seconds(probe.at) = Seconds(Expiry)
    /\ probe.res = Return(probe.data)
    /\ decode_access_token(probe.token, probe.at + TicksPerSecond) = ReturnNone(NoTokenData)

\* C7: decode_access_token returns a claim set or None for every token and
\* never raises.
C7_DecodeNeverRaises ==
    probe.f = "decode_access_token" => probe.res.exc = "none"

-----------------------------------------------------------------------------
(* The password hasher and the authenticator on their own: the users      *)
(* table holds one row whose password_hash column is any text             *)

\* What the column may hold: a hash hash_password made, NULL, text that is
\* no hash of a configured scheme, and a bcrypt string cut short
StoredHashes ==
    {hash_password(p, s) : p \in Passwords, s \in Salts}
    \cup {NullHash,
          [scheme |-> "unknown", wf |-> FALSE, salt |-> 0, digest |-> "pw123456"],
          [scheme |-> "bcrypt", wf |-> FALSE, salt |-> 1, digest |-> "pw123456"]}

NoHasherProbe ==
    [f |-> None, username |-> None, password |-> None, hashed |-> NullHash,
     res |-> ReturnNone(NoUser)]

InitHasher ==
    /\ \E username \in Usernames, h \in StoredHashes, role \in UserRole, a \in BOOLEAN :
          users = <<[id |-> 1, username |-> username, password_hash |-> h,
                     role |-> role, is_active |-> a]>>
    /\ customers = <<>> /\ vehicles = <<>> /\ jobs = <<>> /\ invoices = <<>> /\ notes = <<>>
    /\ now = 0
    /\ slot = [r \in Workers |-> Idle]
    /\ probe = NoHasherProbe

\* verify_password(plain_password, hashed_password)
Verify(plain_password, hashed_password) ==
    /\ probe' = [f |-> "verify_password", username |-> None, password |-> plain_password,
                 hashed |-> hashed_password,
                 res |-> verify_password(plain_password, hashed_password)]
    /\ UNCHANGED <<store, now, slot>>

\* authenticate_user(username, password)
Authenticate(username, password) ==
    /\ probe' = [f |-> "authenticate_user", username |-> username, password |-> password,
                 hashed |-> NullHash,
                 res |-> authenticate_user(users, username, password)]
    /\ UNCHANGED <<store, now, slot>>

NextHasher ==
    \/ \E plain_password \in Passwords, i \in DOMAIN users :
          Verify(plain_password, users[i].password_hash)
    \/ \E username \in LoginNames, password \in Passwords : Authenticate(username, password)
    \/ \E r \in OneWorker, username \in LoginNames, password \in Passwords :
          Login(r, username, password)

SpecHasher == InitHasher /\ [][NextHasher]_vars

\* Text that is there and is no bcrypt hash
Malformed(hashed_password) ==
    /\ hashed_password.scheme # "null"
    /\ hashed_password.scheme # "bcrypt" \/ ~hashed_password.wf

\* C8: verify_password returns False, and does not raise, for a malformed
\* stored hash; authenticate_user for a user whose stored hash is malformed
\* returns None, and login answers such a user as it answers any failure.
C8_MalformedHashIsFalse ==
    /\ (probe.f = "verify_password" /\ Malformed(probe.hashed))
       => probe.res = Return(FALSE)
    /\ ( /\ probe.f = "authenticate_user"
         /\ \E i \in DOMAIN users : /\ users[i].username = probe.username
                                    /\ Malformed(users[i].password_hash) )
       => probe.res = ReturnNone(NoUser)
    /\ \A r \in Workers :
          ( /\ slot[r].ep = "login"
            /\ \E i \in DOMAIN users : /\ users[i].username = slot[r].arg.username
                                       /\ Malformed(users[i].password_hash) )
          => slot[r].status = 401

-----------------------------------------------------------------------------
(* Updates: an admin and a worker, one customer with a vehicle, a job and *)
(* its invoice; the rows are updated in any order, by any body            *)

MaxUpdates == 2

UpdateEndpoints == {"update_user", "update_customer", "update_job", "update_invoice"}

\* Bodies of the updates: every field may be left out
FullNames == {None, "Robert"}
Phones == {None, "555-1234"}
Descriptions == {None, "brake pads"}
Statuses == JobStatus \cup {None}
OptWorkers(usrs) == {NoInt} \cup {SomeInt(n) : n \in 2..(Len(usrs) + 1)}
OptAmounts == {NoInt, SomeInt(250)}

InitUpdates ==
    /\ users = <<Registered(1, "alice", "admin"), Registered(2, "bob", "worker")>>
    /\ customers = create_customer(<<>>, "Bob", None).tbl
    /\ vehicles = create_vehicle(customers, <<>>, 1, "ABC-1234").tbl
    /\ jobs = create_job(vehicles, users, <<>>, 1, "brake check", 0, 0).tbl
    /\ invoices = create_invoice(jobs, <<>>, 1, 120, 0).tbl
    /\ notes = <<>>
    /\ now = 0
    /\ slot = [r \in Workers |-> Idle]
    /\ probe = NoProbe

NextUpdates ==
    \/ \E r \in OneWorker, ep \in UpdateEndpoints, token \in IssuedTokens(users, now) :
          Request(r, ep, token)
    \/ \E r \in OneWorker, user_id \in 2..(Len(users) + 1), role \in {None, "admin"},
          is_active \in OptBool : UpdateUser(r, user_id, role, is_active)
    \/ \E r \in OneWorker, customer_id \in 1..(Len(customers) + 1), full_name \in FullNames,
          phone \in Phones, is_active \in OptBool :
          UpdateCustomer(r, customer_id, full_name, phone, is_active, MaxUpdates)
    \/ \E r \in OneWorker, job_id \in 1..(Len(jobs) + 1),
          assigned_worker \in OptWorkers(users), description \in Descriptions,
          status \in Statuses :
          UpdateJob(r, job_id, assigned_worker, description, status, MaxUpdates)
    \/ \E r \in OneWorker, invoice_id \in 1..(Len(invoices) + 1),
          total_amount \in OptAmounts, is_paid \in OptBool :
          UpdateInvoice(r, invoice_id, total_amount, is_paid, MaxUpdates)

SpecUpdates == InitUpdates /\ [][NextUpdates]_vars

\* The worker is in the handler of route ep and answers in this step
Answers(r, ep) ==
    /\ slot[r].pc = "handler" /\ slot[r].ep = ep
    /\ slot'[r].pc = "idle"

\* C12: an update of a user, customer, job or invoice whose body supplies no
\* field is answered with a failure (404), writes nothing (every table is
\* as before, the job's updated_at with it) and succeeds in no case.
C12_EmptyUpdateChangesNothing ==
    [][\A r \in OneWorker :
          /\ Answers(r, "update_user")
             => \A user_id \in 1..(Len(users) + 1) :
                   UpdateUser(r, user_id, None, NoBool)
                   => slot'[r].status = 404 /\ store' = store
          /\ Answers(r, "update_customer")
             => \A customer_id \in 1..(Len(customers) + 1) :
                   UpdateCustomer(r, customer_id, None, None, NoBool, MaxUpdates)
                   => slot'[r].status = 404 /\ store' = store
          /\ Answers(r, "update_job")
             => \A job_id \in 1..(Len(jobs) + 1) :
                   UpdateJob(r, job_id, NoInt, None, None, MaxUpdates)
                   => slot'[r].status = 404 /\ store' = store
          /\ Answers(r, "update_invoice")
             => \A invoice_id \in 1..(Len(invoices) + 1) :
                   UpdateInvoice(r, invoice_id, NoInt, NoBool, MaxUpdates)
                   => slot'[r].status = 404 /\ store' = store]_vars

\* An empty update of the job that exists was refused, after time had
\* passed, and the job still carries the stamp of its creation
C12_Witness ==
    \E r \in OneWorker :
        /\ slot[r].pc = "idle" /\ slot[r].ep = "update_job" /\ slot[r].status = 404
        /\ slot[r].arg.fields = 0 /\ slot[r].arg.id \in DOMAIN jobs
        /\ now > 0 /\ jobs[slot[r].arg.id].updated_at = 0

\* C13: what the caller of PATCH /jobs/{job_id} sees (status and detail)
\* for a body without fields sent to a job that exists differs from what it
\* sees for a body with fields sent to an id that names no job.
C13_EmptyUpdateToldFromNotFound ==
    \A job_id \in DOMAIN jobs, assigned_worker \in OptWorkers(users),
       description \in Descriptions, status \in Statuses :
        LET empty == update_job_info(jobs, users, job_id, NoInt, None, None, now)
            missing == update_job_info(jobs, users, Len(jobs) + 1, assigned_worker,
                                       description, status, now)
        IN (assigned_worker.given \/ description # None \/ status # None)
           => Observable(empty.answer) # Observable(missing.answer)

\* The value of a field after an update: the supplied one, or the prior one
\* when the field is left out
Kept(supplied, given, prior) == IF given THEN supplied ELSE prior

\* C14: an update that succeeds writes the supplied fields and nothing
\* else: in the updated row every field left out keeps its value (a job
\* updated with a description only keeps status, assigned_worker and
\* vehicle_id), a job's updated_at moves forward, and every other row and
\* table is as before.  For update_user, update_customer, update_job and
\* update_invoice alike, with any subset of the fields.
C14_PartialUpdateChangesSuppliedOnly ==
    [][\A r \in OneWorker :
          /\ Answers(r, "update_user")
             => \A user_id \in 1..(Len(users) + 1), role \in UserRole \cup {None},
                   is_active \in OptBool :
                   (UpdateUser(r, user_id, role, is_active) /\ slot'[r].status = 200)
                   => /\ user_id \in DOMAIN users
                      /\ users' = [users EXCEPT ![user_id] =
                            [@ EXCEPT !.role = Kept(role, role # None, @),
                                      !.is_active = Kept(is_active.val, is_active.given, @)]]
                      /\ UNCHANGED <<customers, vehicles, jobs, invoices, notes>>
          /\ Answers(r, "update_customer")
             => \A customer_id \in 1..(Len(customers) + 1), full_name \in FullNames,
                   phone \in Phones, is_active \in OptBool :
                   ( /\ UpdateCustomer(r, customer_id, full_name, phone, is_active, MaxUpdates)
                     /\ slot'[r].status = 200 )
                   => /\ customer_id \in DOMAIN customers
                      /\ customers' = [customers EXCEPT ![customer_id] =
                            [@ EXCEPT !.full_name = Kept(full_name, full_name # None, @),
                                      !.phone = Kept(phone, phone # None, @),
                                      !.is_active = Kept(is_active.val, is_active.given, @)]]
                      /\ UNCHANGED <<users, vehicles, jobs, invoices, notes>>
          /\ Answers(r, "update_job")
             => \A job_id \in 1..(Len(jobs) + 1), assigned_worker \in OptWorkers(users),
                   description \in Descriptions, status \in Statuses :
                   ( /\ UpdateJob(r, job_id, assigned_worker, description, status, MaxUpdates)
                     /\ slot'[r].status = 200 )
                   => /\ job_id \in DOMAIN jobs
                      /\ jobs'[job_id].updated_at > jobs[job_id].updated_at
                      /\ [jobs' EXCEPT ![job_id].updated_at = jobs[job_id].updated_at]
                         = [jobs EXCEPT ![job_id] =
                              [@ EXCEPT !.assigned_worker = Kept(assigned_worker.val,
                                                                 assigned_worker.given, @),
                                        !.description = Kept(description, description # None, @),
                                        !.status = Kept(status, status # None, @)]]
                      /\ UNCHANGED <<users, customers, vehicles, invoices, notes>>
          /\ Answers(r, "update_invoice")
             => \A invoice_id \in 1..(Len(invoices) + 1), total_amount \in OptAmounts,
                   is_paid \in OptBool :
                   ( /\ UpdateInvoice(r, invoice_id, total_amount, is_paid, MaxUpdates)
                     /\ slot'[r].status = 200 )
                   => /\ invoice_id \in DOMAIN invoices
                      /\ invoices' = [invoices EXCEPT ![invoice_id] =
                            [@ EXCEPT !.total_amount = Kept(total_amount.val,
                                                            total_amount.given, @),
                                      !.is_paid = Kept(is_paid.val, is_paid.given, @)]]
                      /\ UNCHANGED <<users, customers, vehicles, jobs, notes>>]_vars

\* The first statement that was run updated the description of the job and
\* nothing else: the job has the new description, the status, worker and
\* vehicle it was created with, and a later updated_at
C14_Witness ==
    \E r \in OneWorker :
        /\ slot[r].pc = "idle" /\ slot[r].ep = "update_job" /\ slot[r].status = 200
        /\ slot[r].arg.fields = 1 /\ slot[r].arg.id \in DOMAIN jobs
        /\ now = 1
        /\ LET job == jobs[slot[r].arg.id]
           IN /\ job.description = "brake pads"
              /\ job.status = jobs_status_default
              /\ job.assigned_worker = 0 /\ job.vehicle_id = 1
              /\ job.created_at = 0 /\ job.updated_at = 1

-----------------------------------------------------------------------------
(* A job and its invoice: the job was created for the one vehicle and has *)
(* been cancelled since; it is updated and invoiced in any order          *)

JobEndpoints == {"update_job", "create_invoice", "update_invoice"}

\* The clock stands at 1 after the update that cancelled the job
JobsHorizon == MaxUpdates + 1

InitJobs ==
    /\ users = <<Registered(1, "alice", "admin"), Registered(2, "bob", "worker")>>
    /\ customers = create_customer(<<>>, "Bob", None).tbl
    /\ vehicles = create_vehicle(customers, <<>>, 1, "ABC-1234").tbl
    /\ jobs = update_job(create_job(vehicles, users, <<>>, 1, "brake check", 0, 0).tbl,
                         users, 1, NoInt, None, "cancelled", 1).tbl
    /\ invoices = <<>>
    /\ notes = <<>>
    /\ now = 1
    /\ slot = [r \in Workers |-> Idle]
    /\ probe = NoProbe

NextJobs ==
    \/ \E r \in OneWorker, ep \in JobEndpoints, token \in IssuedTokens(users, now) :
          Request(r, ep, token)
    \/ \E r \in OneWorker, job_id \in 1..(Len(jobs) + 1), description \in Descriptions,
          status \in Statuses :
          UpdateJob(r, job_id, NoInt, description, status, JobsHorizon)
    \/ \E r \in OneWorker, job_id \in 1..(Len(jobs) + 1), total_amount \in Amounts :
          CreateInvoice(r, job_id, total_amount)
    \/ \E r \in OneWorker, invoice_id \in 1..(Len(invoices) + 1),
          total_amount \in OptAmounts, is_paid \in OptBool :
          UpdateInvoice(r, invoice_id, total_amount, is_paid, JobsHorizon)

SpecJobs == InitJobs /\ [][NextJobs]_vars

\* C15: a job is inserted with status created; and an update of an
\* existing job that supplies a status t of JobStatus (with or without a
\* description) succeeds and leaves the job in status t, whatever status
\* the job was in, completed and cancelled included.
C15_AnyStatusToAnyStatus ==
    [][/\ \A description \in Descriptions \ {None} :
             LET q == create_job(vehicles, users, jobs, 1, description, 0, now)
             IN q.ret.some /\ q.ret.val.status = "created"
                /\ q.tbl[Len(q.tbl)].status = "created"
       /\ \A r \in OneWorker :
             Answers(r, "update_job")
             => \A job_id \in DOMAIN jobs, description \in Descriptions, status \in JobStatus :
                   UpdateJob(r, job_id, NoInt, description, status, JobsHorizon)
                   => /\ slot'[r].status = 200
                      /\ jobs'[job_id].status = status]_vars

\* The one statement run since the job was cancelled has updated its
\* status, and nothing else, to created
C15_Witness ==
    \E r \in OneWorker :
        /\ slot[r].pc = "idle" /\ slot[r].ep = "update_job" /\ slot[r].status = 200
        /\ slot[r].arg.fields = 1 /\ slot[r].arg.id = 1
        /\ now = 2
        /\ jobs[1].status = "created" /\ jobs[1].updated_at = 2
        /\ jobs[1].description = "brake check"

\* The job has an invoice
Invoiced(invs, job_id) == \E i \in DOMAIN invs : invs[i].job_id = job_id

\* C11: create_invoice for a job that has an invoice, with any amount, is
\* answered with the route's rejection (400 'Failed to create invoice. Job
\* may not exist or already has an invoice.', no server error), and the
\* invoice of the job (id, total_amount, is_paid, created_at), like every
\* other invoice, is as it was.
C11_SecondInvoiceRejected ==
    [][\A r \in OneWorker :
          Answers(r, "create_invoice")
          => \A job_id \in DOMAIN jobs, total_amount \in Amounts :
                (Invoiced(invoices, job_id) /\ CreateInvoice(r, job_id, total_amount))
                => /\ slot'[r].status = 400
                   /\ slot'[r].detail =
                        "Failed to create invoice. Job may not exist or already has an invoice."
                   /\ Len(invoices') = Len(invoices)
                   /\ \A i \in DOMAIN invoices :
                         /\ invoices'[i].id = invoices[i].id
                         /\ invoices'[i].job_id = invoices[i].job_id
                         /\ invoices'[i].total_amount = invoices[i].total_amount
                         /\ invoices'[i].is_paid = invoices[i].is_paid
                         /\ invoices'[i].created_at = invoices[i].created_at]_vars

\* A second invoice was refused for the job whose invoice had been paid
\* and re-priced by then
C11_Witness ==
    \E r \in OneWorker :
        /\ slot[r].pc = "idle" /\ slot[r].ep = "create_invoice" /\ slot[r].status = 400
        /\ slot[r].arg.id \in DOMAIN jobs
        /\ Len(invoices) = 1 /\ invoices[1].job_id = slot[r].arg.id
        /\ invoices[1].is_paid /\ invoices[1].total_amount = 250
        /\ now > invoices[1].created_at

-----------------------------------------------------------------------------
(* Job notes: two jobs of the one vehicle, the second with a note of its  *)
(* worker; the admin and the worker add notes and read them back while    *)
(* the clock moves on                                                     *)

MaxNoteTicks == 1

NoteEndpoints == {"add_job_note", "get_job_notes"}

NoteTexts == {"checked pads", "ordered parts"}

InitNotes ==
    /\ users = <<Registered(1, "alice", "admin"), Registered(2, "bob", "worker")>>
    /\ customers = create_customer(<<>>, "Bob", None).tbl
    /\ vehicles = create_vehicle(customers, <<>>, 1, "ABC-1234").tbl
    /\ jobs = create_job(vehicles, users,
                         create_job(vehicles, users, <<>>, 1, "brake check", 0, 0).tbl,
                         1, "oil change", 2, 0).tbl
    /\ invoices = <<>>
    /\ notes = create_job_note(jobs, users, <<>>, 2, 2, "ordered parts", 0).tbl
    /\ now = 0
    /\ slot = [r \in Workers |-> Idle]
    /\ probe = NoProbe

NextNotes ==
    \/ \E r \in OneWorker, ep \in NoteEndpoints, token \in IssuedTokens(users, now) :
          Request(r, ep, token)
    \/ \E r \in OneWorker, job_id \in 1..(Len(jobs) + 1), note \in NoteTexts :
          AddJobNote(r, job_id, note, MaxNotes)
    \/ \E r \in OneWorker, job_id \in 1..(Len(jobs) + 1) : GetJobNotes(r, job_id)
    \/ Tick(1, MaxNoteTicks)

SpecNotes == InitNotes /\ [][NextNotes]_vars

\* The notes stored for a job
NotesOf(nts, job_id) == {nts[i] : i \in {k \in DOMAIN nts : nts[k].job_id = job_id}}

\* C19: the notes are an append-only log.  No step changes or moves a
\* stored note; a note that is added is stored behind the others with the
\* job_id and the text of the request and the id of the user who sent it;
\* and GET /jobs/{j}/notes returns each note stored for j once, as it is
\* stored, and no other row, in ascending order of created_at.
C19_NotesAppendOnly ==
    [][/\ Len(notes') >= Len(notes)
       /\ \A i \in DOMAIN notes : notes'[i] = notes[i]
       /\ \A r \in OneWorker :
             (Answers(r, "add_job_note") /\ slot'[r].status = 201)
             => /\ Len(notes') = Len(notes) + 1
                /\ LET row == notes'[Len(notes')]
                   IN /\ row.job_id = slot'[r].arg.id
                      /\ row.worker_id = slot[r].user.id
                      /\ row.note \in NoteTexts
                      /\ AddJobNote(r, row.job_id, row.note, MaxNotes)
                      /\ \A i \in DOMAIN notes : notes[i].created_at <= row.created_at
       /\ \A r \in OneWorker :
             Answers(r, "get_job_notes")
             => LET res == probe'.res
                IN /\ notes' = notes
                   /\ {res[k] : k \in DOMAIN res} = NotesOf(notes, probe'.job_id)
                   /\ Len(res) = Cardinality(NotesOf(notes, probe'.job_id))
                   /\ \A a, b \in DOMAIN res :
                         a < b => res[a].created_at <= res[b].created_at]_vars

\* The notes of a job were read back: two of them, added at different times
\* by different users, the earlier one first, while the note of the other
\* job, stored before them, is left out
C19_Witness ==
    /\ probe.f = "get_notes_by_job"
    /\ Len(probe.res) = 2 /\ Len(notes) = 3
    /\ probe.res[1] = notes[2] /\ probe.res[2] = notes[3]
    /\ notes[1].job_id # probe.job_id
    /\ notes[2].created_at < notes[3].created_at
    /\ notes[2].worker_id # notes[3].worker_id
    /\ notes[2].note # notes[3].note

-----------------------------------------------------------------------------
(* Every entity: the admin's requests; customers, vehicles, jobs, notes   *)
(* and invoices are created and updated in any order, with references to *)
(* rows that exist and to rows that do not                                *)

MaxEntityNotes == 1

\* The tokens the admin was handed
AdminTokens(tbl, t) == {token \in IssuedTokens(tbl, t) : token.user_id = IntClaim(1)}

EntityEndpoints ==
    StoreEndpoints \cup {"add_job_note", "update_user", "update_customer", "update_job",
                         "update_invoice"}

InitEntities ==
    /\ users = <<Registered(1, "alice", "admin"), Registered(2, "bob", "worker")>>
    /\ customers = <<>> /\ vehicles = <<>> /\ jobs = <<>> /\ invoices = <<>> /\ notes = <<>>
    /\ now = 0
    /\ slot = [r \in Workers |-> Idle]
    /\ probe = NoProbe

NextEntities ==
    \/ \E r \in OneWorker, ep \in EntityEndpoints, token \in AdminTokens(users, now) :
          Request(r, ep, token)
    \/ \E r \in OneWorker : CreateCustomer(r, "Bob", None)
    \/ \E r \in OneWorker, customer_id \in 1..(Len(customers) + 1) :
          CreateVehicle(r, customer_id, "ABC-1234")
    \/ \E r \in OneWorker, vehicle_id \in 1..(Len(vehicles) + 1),
          assigned_worker \in {0, Len(users), Len(users) + 1} :
          CreateJob(r, vehicle_id, "brake check", assigned_worker)
    \/ \E r \in OneWorker, job_id \in 1..(Len(jobs) + 1) : CreateInvoice(r, job_id, 120)
    \/ \E r \in OneWorker, job_id \in 1..(Len(jobs) + 1) :
          AddJobNote(r, job_id, "checked pads", MaxEntityNotes)
    \/ \E r \in OneWorker, user_id \in 2..(Len(users) + 1), is_active \in OptBool :
          UpdateUser(r, user_id, None, is_active)
    \/ \E r \in OneWorker, customer_id \in 1..(Len(customers) + 1), full_name \in FullNames,
          is_active \in OptBool :
          UpdateCustomer(r, customer_id, full_name, None, is_active, MaxUpdates)
    \/ \E r \in OneWorker, job_id \in 1..(Len(jobs) + 1),
          assigned_worker \in OptWorkers(users) :
          UpdateJob(r, job_id, assigned_worker, None, None, MaxUpdates)
    \/ \E r \in OneWorker, invoice_id \in 1..(Len(invoices) + 1), is_paid \in OptBool :
          UpdateInvoice(r, invoice_id, NoInt, is_paid, MaxUpdates)

SpecEntities == InitEntities /\ [][NextEntities]_vars

\* The ids of a table
Ids(tbl) == {tbl[i].id : i \in DOMAIN tbl}

\* C17: in every reachable state each vehicle's customer_id is the id of a
\* customer, each job's vehicle_id the id of a vehicle, each job's
\* assigned_worker, when not null, the id of a user, and each note's and
\* each invoice's job_id the id of a job.
C17_ReferentialIntegrity ==
    /\ \A i \in DOMAIN vehicles : vehicles[i].customer_id \in Ids(customers)
    /\ \A i \in DOMAIN jobs :
          /\ jobs[i].vehicle_id \in Ids(vehicles)
          /\ jobs[i].assigned_worker # 0 => jobs[i].assigned_worker \in Ids(users)
    /\ \A i \in DOMAIN notes : notes[i].job_id \in Ids(jobs)
    /\ \A i \in DOMAIN invoices : invoices[i].job_id \in Ids(jobs)

\* The job, which has a worker, a note and an invoice, was to be assigned
\* to a user that does not exist, and the update was refused
C17_Witness ==
    /\ \E r \in OneWorker :
          /\ slot[r].pc = "idle" /\ slot[r].ep = "update_job" /\ slot[r].status = 404
          /\ slot[r].arg.fields = 1 /\ slot[r].arg.id \in Ids(jobs)
          /\ jobs[slot[r].arg.id].assigned_worker \in Ids(users)
    /\ vehicles # <<>> /\ notes # <<>> /\ invoices # <<>>

\* Every row of the table is in the table after the step, under its id
RowsStay(tbl, after) ==
    /\ Len(after) >= Len(tbl)
    /\ Ids(tbl) \subseteq Ids(after)
    /\ \A i \in DOMAIN tbl : after[i].id = tbl[i].id

\* C18: no step removes a row: the ids of the users, customers, vehicles,
\* jobs, notes and invoices after a step include those before it; and a
\* user or a customer that was active is inactive after a step only when
\* the step is an update of that row, answered 200, that supplies
\* is_active = FALSE.
C18_NothingIsDeleted ==
    [][/\ RowsStay(users, users') /\ RowsStay(customers, customers')
       /\ RowsStay(vehicles, vehicles') /\ RowsStay(jobs, jobs')
       /\ RowsStay(notes, notes') /\ RowsStay(invoices, invoices')
       /\ \A u \in DOMAIN users :
             (users[u].is_active /\ ~users'[u].is_active)
             => \E r \in OneWorker, role \in UserRole \cup {None} :
                   /\ UpdateUser(r, u, role, SomeBool(FALSE))
                   /\ slot'[r].status = 200
       /\ \A c \in DOMAIN customers :
             (customers[c].is_active /\ ~customers'[c].is_active)
             => \E r \in OneWorker, full_name \in FullNames, phone \in Phones :
                   /\ UpdateCustomer(r, c, full_name, phone, SomeBool(FALSE), MaxUpdates)
                   /\ slot'[r].status = 200]_vars

\* A user and a customer were deactivated, and every table has a row
C18_Witness ==
    /\ \E u \in DOMAIN users : ~users[u].is_active
    /\ \E c \in DOMAIN customers : ~customers[c].is_active
    /\ vehicles # <<>> /\ jobs # <<>> /\ notes # <<>> /\ invoices # <<>>

-----------------------------------------------------------------------------
(* Registration of a username that is taken, under concurrent requests    *)

\* C20: a registration that is refused because a row has the username is
\* answered 400 'Username already registered', by the check before the
\* insert and by the insert alike (two registrations of one username that
\* both passed the check included), never with a server failure; and no
\* two rows have the same username.
C20_TakenUsernameIsConflict ==
    [][/\ \A i, j \in DOMAIN users' :
             users'[i].username = users'[j].username => i = j
       /\ \A r \in Workers :
             /\ \A role \in UserRole :
                   ( /\ ~users_username_key(users, "carol")
                     /\ RegisterCheck(r, "carol", "pw123456", role) )
                   => /\ slot'[r].pc = "idle" /\ slot'[r].status = 400
                      /\ slot'[r].detail = "Username already registered"
             /\ ( /\ slot[r].pc = "insert" /\ slot'[r].pc = "idle"
                  /\ ~users_username_key(users, slot[r].arg.username) )
                => /\ slot'[r].status = 400
                   /\ slot'[r].detail = "Username already registered"
                   /\ users' = users]_vars

-----------------------------------------------------------------------------
(* The failures of POST /invoices as the caller sees them *)

\* C21: what the caller of POST /invoices sees (status and detail) for a
\* job that does not exist differs from what it sees for a job that has an
\* invoice, and neither is the answer to an unexpected server failure.
C21_InvoiceFailuresDistinct ==
    \A job_id \in DOMAIN jobs, total_amount \in Amounts :
        Invoiced(invoices, job_id)
        => LET conflict == create_new_invoice(jobs, invoices, job_id, total_amount, now)
               missing == create_new_invoice(jobs, invoices, Len(jobs) + 1, total_amount, now)
           IN /\ Observable(conflict.answer) # Observable(missing.answer)
              /\ conflict.answer.status # 500
              /\ missing.answer.status # 500

-----------------------------------------------------------------------------
(* One worker's day, from an empty store: alice registers, logs in, takes *)
(* in Bob's car, works on it and invoices it.  The requests of the day    *)
(* may come in any order and any number of times.                         *)

JourneyEndpoints ==
    StoreEndpoints \cup {"add_job_note", "update_job", "update_invoice", "get_job_invoice"}

InitJourney ==
    /\ EmptyStore
    /\ now = 0
    /\ slot = [r \in Workers |-> Idle]
    /\ probe = NoProbe

NextJourney ==
    \/ \E r \in OneWorker : RegisterCheck(r, "alice", "pw123456", "worker")
    \/ \E r \in OneWorker, salt \in Salts : RegisterInsert(r, salt)
    \/ \E r \in OneWorker : Login(r, "alice", "pw123456")
    \/ \E r \in OneWorker, ep \in JourneyEndpoints, token \in IssuedTokens(users, now) :
          Request(r, ep, token)
    \/ \E r \in OneWorker : CreateCustomer(r, "Bob", None)
    \/ \E r \in OneWorker : CreateVehicle(r, 1, "ABC-1234")
    \/ \E r \in OneWorker : CreateJob(r, 1, "brake check", 0)
    \/ \E r \in OneWorker : AddJobNote(r, 1, "checked pads", MaxEntityNotes)
    \/ \E r \in OneWorker : UpdateJob(r, 1, NoInt, None, "completed", MaxUpdates)
    \/ \E r \in OneWorker : CreateInvoice(r, 1, 120)
    \/ \E r \in OneWorker : UpdateInvoice(r, 1, NoInt, SomeBool(TRUE), MaxUpdates)
    \/ \E r \in OneWorker : GetJobInvoice(r, 1)

SpecJourney == InitJourney /\ [][NextJourney]_vars

\* alice is the one stored user, an active worker
AliceRegistered ==
    /\ Len(users) = 1
    /\ users[1].username = "alice" /\ users[1].role = "worker" /\ users[1].is_active

\* C22: from the empty store each request of the day, made once the ones
\* before it have been answered, is answered as the story tells: the
\* registration of worker alice and her login succeed, the token of the
\* login is accepted by every route of the day, and customer, vehicle, job
\* (in status created), note, completion of the job and invoice (120,
\* unpaid) succeed; a second invoice for the job is refused with 400 and
\* changes nothing; the payment succeeds and keeps the amount; and the
\* invoice fetched for the job is the stored one.
C22_WorkersDay ==
    [][\A r \in OneWorker :
          /\ (users = <<>> /\ RegisterCheck(r, "alice", "pw123456", "worker"))
             => slot'[r].pc = "insert"
          /\ (users = <<>> /\ \E salt \in Salts : RegisterInsert(r, salt))
             => slot'[r].status = 201 /\ AliceRegistered'
          /\ (AliceRegistered /\ Login(r, "alice", "pw123456"))
             => /\ slot'[r].status = 200
                /\ \A ep \in JourneyEndpoints :
                      Guard(ep, slot'[r].token, now, users).status = 200
          /\ (AliceRegistered /\ slot[r].pc = "idle" /\ slot'[r] # slot[r])
             => \A ep \in JourneyEndpoints, t0 \in 0..now :
                   Request(r, ep, login(users, "alice", "pw123456", t0).token)
                   => slot'[r].pc = "handler"
          /\ (AliceRegistered /\ customers = <<>> /\ CreateCustomer(r, "Bob", None))
             => /\ slot'[r].status = 201
                /\ Len(customers') = 1 /\ customers'[1].full_name = "Bob"
          /\ (Len(customers) = 1 /\ vehicles = <<>> /\ CreateVehicle(r, 1, "ABC-1234"))
             => /\ slot'[r].status = 201
                /\ Len(vehicles') = 1 /\ vehicles'[1].customer_id = customers[1].id
          /\ (Len(vehicles) = 1 /\ jobs = <<>> /\ CreateJob(r, 1, "brake check", 0))
             => /\ slot'[r].status = 201
                /\ Len(jobs') = 1 /\ jobs'[1].vehicle_id = vehicles[1].id
                /\ jobs'[1].description = "brake check" /\ jobs'[1].status = "created"
          /\ ( /\ AliceRegistered /\ Len(jobs) = 1 /\ notes = <<>>
               /\ AddJobNote(r, 1, "checked pads", MaxEntityNotes) )
             => /\ slot'[r].status = 201
                /\ Len(notes') = 1 /\ notes'[1].job_id = jobs[1].id
                /\ notes'[1].note = "checked pads" /\ notes'[1].worker_id = users[1].id
          /\ (Len(jobs) = 1 /\ UpdateJob(r, 1, NoInt, None, "completed", MaxUpdates))
             => slot'[r].status = 200 /\ jobs'[1].status = "completed"
          /\ (Len(jobs) = 1 /\ invoices = <<>> /\ CreateInvoice(r, 1, 120))
             => /\ slot'[r].status = 201
                /\ Len(invoices') = 1 /\ invoices'[1].job_id = jobs[1].id
                /\ invoices'[1].total_amount = 120 /\ ~invoices'[1].is_paid
          /\ (Len(invoices) = 1 /\ CreateInvoice(r, 1, 120))
             => /\ slot'[r].status = 400
                /\ slot'[r].detail =
                     "Failed to create invoice. Job may not exist or already has an invoice."
                /\ invoices' = invoices
          /\ (Len(invoices) = 1 /\ UpdateInvoice(r, 1, NoInt, SomeBool(TRUE), MaxUpdates))
             => /\ slot'[r].status = 200
                /\ invoices'[1] = [invoices[1] EXCEPT !.is_paid = TRUE]
          /\ (Len(invoices) = 1 /\ GetJobInvoice(r, 1))
             => /\ slot'[r].status = 200
                /\ probe'.res = invoices[1]]_vars

\* The end of the day: the invoice fetched is paid and of 120; it was
\* inserted after the job was completed and paid after that, and the note
\* was added before the job was completed
C22_Witness ==
    /\ AliceRegistered
    /\ \E r \in OneWorker :
          slot[r].pc = "idle" /\ slot[r].ep = "get_job_invoice" /\ slot[r].status = 200
    /\ probe.f = "get_invoice_by_job"
    /\ probe.res.is_paid /\ probe.res.total_amount = 120 /\ probe.res.job_id = 1
    /\ Len(jobs) = 1 /\ jobs[1].status = "completed"
    /\ jobs[1].created_at = 0 /\ jobs[1].updated_at = 1
    /\ Len(notes) = 1 /\ notes[1].created_at = 0
    /\ invoices = <<probe.res>> /\ invoices[1].created_at = 1
    /\ now = 2

-----------------------------------------------------------------------------
(* Failed writes *)

\* The statuses of success
Success == {200, 201}

\* C23: a creating or updating request that is answered with a failure
\* leaves every table as it was when its statement started, whether the
\* failure is a uniqueness violation, a foreign-key violation or a row
\* that is not there; and create_user, which has no route here, hands back
\* the users table unchanged whenever it returns None.
C23_FailedWriteChangesNothing ==
    [][/\ \A r \in OneWorker :
             ( /\ slot[r].pc = "handler" /\ slot[r].ep \in EntityEndpoints
               /\ slot'[r].pc = "idle" /\ slot'[r].status \notin Success )
             => store' = store
       /\ \A username \in Usernames \cup {"carol"}, role \in UserRole :
             LET q == create_user(users, username, hash_password("pw123456", 1), role)
             IN /\ ~q.ret.some => q.tbl = users
                /\ q.ret.some <=> users_username_key(users, username)]_vars

\* A job was refused although its vehicle is stored: no job row is left
C23_Witness ==
    /\ \E r \in OneWorker :
          slot[r].pc = "idle" /\ slot[r].ep = "create_job" /\ slot[r].status = 400
    /\ vehicles # <<>> /\ jobs = <<>>

-----------------------------------------------------------------------------
(* Database connections.  Every function that talks to the database has   *)
(* the shape  conn = get_db(); try: ... finally: close_db_connection(conn) *)
(* and is taken apart here into the step that opens the connection and    *)
(* the step that runs the body and the finally clause.  probe.open counts *)
(* the connections each worker's request holds.                           *)

\* The ways control leaves a try block
Exits == {"return", "HTTPException", "exception"}

\* conn = get_db(): one more connection is open
get_db(open) == open + 1

\* Mutant: the connection is closed at the end of the try block, not in a
\* finally clause
close_db_connectionOnReturn(open, exit) == IF exit = "return" THEN open - 1 ELSE open

\* finally: close_db_connection(conn), whatever the way out of the try block
close_db_connection(open, exit) == open - 1

NoConnections == [f |-> "connections", open |-> [r \in Workers |-> 0]]

Opens(r) == probe' = [probe EXCEPT !.open[r] = get_db(@)]
Closes(r, exit) == probe' = [probe EXCEPT !.open[r] = close_db_connection(@, exit)]

\* The request is inside function pc with the connection it has opened
Inside(r, ep, pc, user, arg, token) ==
    slot' = [slot EXCEPT ![r] = [pc |-> pc, ep |-> ep, user |-> user, arg |-> arg,
                                 status |-> 0, detail |-> None, branch |-> None,
                                 token |-> token]]

\* get_current_user up to get_db(): a token that does not decode is
\* answered before any connection is opened
DependencyOpen(r, ep, token) ==
    /\ slot[r].pc = "idle"
    /\ Dependency(ep) # "anonymous"
    /\ LET token_data == decode_access_token(token, now)
       IN IF token_data.exc # "none" \/ ~token_data.some
          THEN /\ Respond(r, ep, get_current_user(token, now, users), NoToken)
               /\ UNCHANGED probe
          ELSE /\ Inside(r, ep, "get_current_user", NoView, NoArg, token)
               /\ Opens(r)
    /\ UNCHANGED <<store, now>>

\* get_current_user from try to finally, and the role policy after it
DependencyClose(r) ==
    /\ slot[r].pc = "get_current_user"
    /\ LET current == get_current_user(slot[r].token, now, users)
           a == Guard(slot[r].ep, slot[r].token, now, users)
       IN /\ Closes(r, IF current.status = 200 THEN "return" ELSE "HTTPException")
          /\ IF a.status # 200 THEN Respond(r, slot[r].ep, a, NoToken)
             ELSE Enter(r, slot[r].ep, "handler", a.user, NoArg)
    /\ UNCHANGED <<store, now>>

\* A route handler up to get_db()
HandlerOpen(r) ==
    /\ slot[r].pc = "handler"
    /\ Inside(r, slot[r].ep, "try", slot[r].user, NoArg, NoToken)
    /\ Opens(r)
    /\ UNCHANGED <<store, now>>

\* A route handler from try to finally: the body returns, raises its
\* HTTPException, or raises anything else
HandlerClose(r, exit) ==
    /\ slot[r].pc = "try"
    /\ Closes(r, exit)
    /\ Respond(r, slot[r].ep,
               CASE exit = "return" -> Answer(200, None, "ok", NoView)
                 [] exit = "HTTPException" -> Answer(404, "not found", "none", NoView)
                 [] OTHER -> ServerError("Exception"),
               NoToken)
    /\ UNCHANGED <<store, now>>

\* POST /auth/login: authenticate_user up to get_db()
AuthenticateOpen(r, username, password) ==
    /\ slot[r].pc = "idle"
    /\ Inside(r, "login", "authenticate_user", NoView,
              [username |-> username, password |-> password, role |-> None, id |-> 0,
               fields |-> 0], NoToken)
    /\ Opens(r)
    /\ UNCHANGED <<store, now>>

\* authenticate_user from try to finally, and the rest of login
AuthenticateClose(r) ==
    /\ slot[r].pc = "authenticate_user"
    /\ LET user == authenticate_user(users, slot[r].arg.username, slot[r].arg.password)
           out == login(users, slot[r].arg.username, slot[r].arg.password, now)
       IN /\ Closes(r, IF user.exc # "none" THEN "exception" ELSE "return")
          /\ RespondTo(r, "login", slot[r].arg, out.answer, out.token)
    /\ UNCHANGED <<store, now>>

\* POST /auth/register up to get_db()
RegisterOpen(r, username, password, role) ==
    /\ slot[r].pc = "idle"
    /\ Inside(r, "register", "register_user", NoView,
              [username |-> username, password |-> password, role |-> role, id |-> 0,
               fields |-> 0], NoToken)
    /\ Opens(r)
    /\ UNCHANGED <<store, now>>

\* register_user from try to finally
RegisterClose(r, salt) ==
    /\ slot[r].pc = "register_user"
    /\ LET arg == slot[r].arg
           existing_user == get_user_by_username(users, arg.username)
           q == create_user(users, arg.username, hash_password(arg.password, salt), arg.role)
       IN IF existing_user.some
          THEN /\ Closes(r, "HTTPException")
               /\ Respond(r, "register",
                          Answer(400, "Username already registered", "existing", NoView),
                          NoToken)
               /\ UNCHANGED users
          ELSE /\ users' = q.tbl
               /\ Closes(r, IF q.ret.some THEN "return" ELSE "HTTPException")
               /\ IF ~q.ret.some
                  THEN Respond(r, "register",
                               Answer(500, "Failed to create user", "create_user", NoView),
                               NoToken)
                  ELSE Respond(r, "register", Answer(201, None, "ok", q.ret.val),
                               create_token_response(q.ret.val, now))
    /\ UNCHANGED <<customers, vehicles, jobs, invoices, notes, now>>

ConnectionEndpoints == {"get_user", "create_invoice", "get_job_notes"}

\* alice the admin, and bob the worker whose stored hash is no hash
InitConnections ==
    /\ users = <<Registered(1, "alice", "admin"),
                 [Registered(2, "bob", "worker") EXCEPT
                    !.password_hash = [scheme |-> "unknown", wf |-> FALSE, salt |-> 0,
                                       digest |-> "pw123456"]]>>
    /\ customers = <<>> /\ vehicles = <<>> /\ jobs = <<>> /\ invoices = <<>> /\ notes = <<>>
    /\ now = 0
    /\ slot = [r \in Workers |-> Idle]
    /\ probe = NoConnections

NextConnections ==
    \/ \E r \in Workers, ep \in ConnectionEndpoints, token \in BearerTokens(users, now) :
          DependencyOpen(r, ep, token)
    \/ \E r \in Workers : DependencyClose(r)
    \/ \E r \in Workers : HandlerOpen(r)
    \/ \E r \in Workers, exit \in Exits : HandlerClose(r, exit)
    \/ \E r \in Workers, username \in LoginNames, password \in Passwords :
          AuthenticateOpen(r, username, password)
    \/ \E r \in Workers : AuthenticateClose(r)
    \/ \E r \in Workers, username \in {"alice", "carol"}, role \in UserRole :
          RegisterOpen(r, username, "pw123456", role)
    \/ \E r \in Workers, salt \in Salts : RegisterClose(r, salt)

SpecConnections == InitConnections /\ [][NextConnections]_vars

\* C24: a worker that is not inside a request (the request was answered
\* with a success, with a rejection or with a server error) and a request
\* that is between its access guard and its route handler hold no open
\* connection; no request ever holds more than one.
C24_ConnectionsReleased ==
    \A r \in Workers :
        /\ probe.open[r] \in {0, 1}
        /\ slot[r].pc \in {"idle", "handler"} => probe.open[r] = 0

\* A login has ended in a server error and a route handler in a rejection,
\* and no connection is open
C24_Witness ==
    /\ \E r, q \in Workers :
          /\ slot[r].pc = "idle" /\ slot[r].ep = "login" /\ slot[r].status = 500
          /\ slot[q].pc = "idle" /\ slot[q].ep \in ConnectionEndpoints /\ slot[q].status = 404
    /\ \A r \in Workers : probe.open[r] = 0

(***************************************************************************)
(* Two requests at once: PATCH /jobs/{job_id} from two clients              *)
(***************************************************************************)

\* What a client put in the body of its PATCH
NoJobUpdate == [job_id |-> 0, assigned_worker |-> NoInt, description |-> None,
                status |-> None]

\* The bodies the two clients sent
NoJobUpdates == [f |-> "update_job_info", sent |-> [r \in Workers |-> NoJobUpdate]]

\* Bodies of the two clients: two values of every field, and every field
\* may be left out
RaceDescriptions == {None, "brake pads", "replace pads"}
RaceStatuses == {None, "in_progress", "completed"}

\* PATCH /jobs/{job_id} of worker r: the handler of UpdateJob, its one
\* UPDATE statement and commit, with the body kept beside the answer
SendJobUpdate(r, job_id, assigned_worker, description, status) ==
    /\ slot[r].pc = "handler" /\ slot[r].ep = "update_job"
    /\ Stamp(MaxUpdates)
    /\ LET out == update_job_info(jobs, users, job_id, assigned_worker, description,
                                  status, now')
       IN /\ jobs' = out.tbl
          /\ RespondTo(r, "update_job",
                       Body(job_id, <<assigned_worker.given, description # None,
                                      status # None>>),
                       out.answer, NoToken)
    /\ probe' = [probe EXCEPT !.sent[r] =
                    [job_id |-> job_id, assigned_worker |-> assigned_worker,
                     description |-> description, status |-> status]]
    /\ UNCHANGED <<users, customers, vehicles, invoices, notes>>

\* alice, bob and carol, a customer's vehicle and its job, nobody assigned
InitRace ==
    /\ users = <<Registered(1, "alice", "admin"), Registered(2, "bob", "worker"),
                 Registered(3, "carol", "worker")>>
    /\ customers = create_customer(<<>>, "Bob", None).tbl
    /\ vehicles = create_vehicle(customers, <<>>, 1, "ABC-1234").tbl
    /\ jobs = create_job(vehicles, users, <<>>, 1, "brake check", 0, 0).tbl
    /\ invoices = <<>>
    /\ notes = <<>>
    /\ now = 0
    /\ slot = [r \in Workers |-> Idle]
    /\ probe = NoJobUpdates

\* Each of the two clients sends one request; the two are in flight together
\* and their statements run in either order
NextRace ==
    \/ \E r \in Workers, token \in IssuedTokens(users, now) :
          slot[r] = Idle /\ Request(r, "update_job", token)
    \/ \E r \in Workers, job_id \in 1..(Len(jobs) + 1),
          assigned_worker \in OptWorkers(users),
          description \in RaceDescriptions, status \in RaceStatuses :
          SendJobUpdate(r, job_id, assigned_worker, description, status)

SpecRace == InitRace /\ [][NextRace]_vars

\* Both clients have their 200 for job job_id
BothUpdated(job_id) ==
    \A r \in Workers :
       /\ slot[r].pc = "idle" /\ slot[r].ep = "update_job" /\ slot[r].status = 200
       /\ probe.sent[r].job_id = job_id

\* The value of a field after two updates: the one supplied when one body
\* supplies it, one of the two when both do, the prior one when neither does
Merged(value, one, other, left_out, prior) ==
    IF one = left_out /\ other = left_out THEN value = prior
    ELSE IF other = left_out THEN value = one
    ELSE IF one = left_out THEN value = other
    ELSE value \in {one, other}

\* C25: after two update_job requests on the same job that were in flight
\* together, whichever statement ran first, every field that only one of
\* them supplied holds that request's value (neither overwrites the other's
\* field), a field both supplied holds the value of one of the two, and a
\* field neither supplied is as it was.
C25_ConcurrentUpdatesMerge ==
    BothUpdated(1) =>
       LET a == probe.sent[1]
           b == probe.sent[2]
           prior == create_job(vehicles, users, <<>>, 1, "brake check", 0, 0).tbl[1]
       IN /\ Merged(jobs[1].status, a.status, b.status, None, prior.status)
          /\ Merged(jobs[1].description, a.description, b.description, None,
                    prior.description)
          /\ Merged(SomeInt(jobs[1].assigned_worker), a.assigned_worker,
                    b.assigned_worker, NoInt, SomeInt(prior.assigned_worker))

\* One client supplied only the status, the other only the description; both
\* statements ran and the row carries both values
C25_Witness ==
    /\ BothUpdated(1)
    /\ probe.sent[1] = [job_id |-> 1, assigned_worker |-> NoInt, description |-> None,
                        status |-> "completed"]
    /\ probe.sent[2] = [job_id |-> 1, assigned_worker |-> NoInt,
                        description |-> "replace pads", status |-> None]
    /\ jobs[1].status = "completed" /\ jobs[1].description = "replace pads"
    /\ jobs[1].updated_at = 2

-----------------------------------------------------------------------------
(* Roles that change while tokens are out: alice the admin and bob the    *)
(* worker logged in at time 0 and keep presenting those tokens            *)

\* The tokens the logins at time 0 handed out: alice's says admin, bob's
\* says worker, whatever the users table says later
OldTokens ==
    { create_token_response(Registered(1, "alice", "admin"), 0),
      create_token_response(Registered(2, "bob", "worker"), 0) }

NextRoles ==
    \/ \E r \in OneWorker, ep \in UserEndpoints, token \in OldTokens : Request(r, ep, token)
    \/ \E r \in OneWorker : ListUsers(r)
    \/ \E r \in OneWorker, user_id \in 1..(Len(users) + 1) : GetUser(r, user_id)
    \/ \E r \in OneWorker, user_id \in 1..(Len(users) + 1), role \in UserRole \cup {None},
          is_active \in OptBool : UpdateUser(r, user_id, role, is_active)

SpecRoles == InitUsers /\ [][NextRoles]_vars

\* C26: the role that decides an admin-only request is the one stored for
\* the token's user when the request arrives, not the role claim of the
\* token: a token of an active user whose stored role is not admin is
\* answered 403 "Admin access required" even when its claim says admin, and
\* a token of an active user whose stored role is admin enters the handler
\* as that user even when its claim says worker.
C26_RoleReadFromUserRecord ==
    [][\A r \in OneWorker :
          (slot[r].pc = "idle" /\ slot'[r] # slot[r])
          => \A token \in OldTokens, ep \in UserEndpoints :
                ( /\ Request(r, ep, token)
                  /\ users[token.user_id.val].is_active )
                => LET user == users[token.user_id.val]
                   IN IF user.role = "admin"
                      THEN /\ slot'[r].pc = "handler"
                           /\ slot'[r].user.id = user.id
                           /\ slot'[r].user.role = "admin"
                      ELSE /\ slot'[r].pc = "idle" /\ slot'[r].status = 403
                           /\ slot'[r].detail = "Admin access required"]_vars

\* alice has been made a worker and bob an admin, both still active.  The
\* one request in the slot was answered 403 on its arrival, so the table
\* was as it is now: bob's token would have passed, the token refused is
\* alice's, whose claim says admin.
C26_Witness ==
    /\ users[1].role = "worker" /\ users[1].is_active
    /\ users[2].role = "admin" /\ users[2].is_active
    /\ \E r \in OneWorker :
          /\ slot[r].pc = "idle" /\ slot[r].ep = "update_user"
          /\ slot[r].status = 403 /\ slot[r].branch = "role"

-----------------------------------------------------------------------------
\* The users let in to the authenticated reads: those for whom some bearer
\* string passes get_current_user
AdmittedToReads(tbl, t) ==
    { u \in DOMAIN tbl :
        \E token \in BearerTokens(tbl, t) :
           LET a == get_current_user(token, t, tbl)
           IN a.status = 200 /\ a.user.id = tbl[u].id }

\* The users let in to the writes: get_current_active_worker on top of it
AdmittedToWrites(tbl, t) ==
    { u \in DOMAIN tbl :
        \E token \in BearerTokens(tbl, t) :
           LET a == get_current_active_worker(get_current_user(token, t, tbl))
           IN a.status = 200 /\ a.user.id = tbl[u].id }

\* C27: every stored role is admin or worker, so the worker-or-admin policy
\* refuses (403) no request that get_current_user has let through: for
\* every bearer string, issued or not, get_current_active_worker answers
\* what get_current_user answered, and the users admitted to the writes are
\* the users admitted to the authenticated reads.
C27_WorkerPolicyAdmitsEveryUser ==
    /\ \A u \in DOMAIN users : users[u].role \in UserRole
    /\ \A token \in BearerTokens(users, now) :
          LET current == get_current_user(token, now, users)
          IN /\ current.status = 200
                => get_current_active_worker(current) = current
             /\ get_current_active_worker(current).status # 403
    /\ AdmittedToWrites(users, now) = AdmittedToReads(users, now)

\* An admin and a worker are stored and active, and a request of the worker
\* has passed the worker-or-admin policy of GET /my-jobs
C27_Witness ==
    /\ \E u \in DOMAIN users : users[u].role = "admin" /\ users[u].is_active
    /\ \E r \in OneWorker :
          /\ slot[r].pc = "handler" /\ slot[r].ep = "my_jobs"
          /\ slot[r].user.role = "worker" /\ slot[r].user.is_active

-----------------------------------------------------------------------------
\* C28: POST /auth/register declares no dependency, and a registration that
\* names an unused username and the role admin is answered 201: the users
\* table gains an active row with that username and the role admin, and the
\* token of the response passes the admin-only policy of list users, get
\* user and update user as that user, whether or not an admin existed.
C28_AnyoneRegistersAsAdmin ==
    [][\A r \in OneWorker :
          ( /\ slot[r].pc = "insert" /\ slot[r].arg.role = "admin"
            /\ slot'[r].pc = "idle"
            /\ ~get_user_by_username(users, slot[r].arg.username).some )
          => /\ Dependency("register") = "anonymous"
             /\ slot'[r].status = 201
             /\ Len(users') = Len(users) + 1
             /\ \A u \in DOMAIN users : users'[u] = users[u]
             /\ LET row == users'[Len(users')]
                IN /\ row.username = slot[r].arg.username
                   /\ row.role = "admin" /\ row.is_active
                   /\ \A ep \in UserEndpoints :
                         LET a == Guard(ep, slot'[r].token, now', users')
                         IN a.status = 200 /\ a.user.id = row.id]_vars

\* The first account of the store was registered as admin: nobody was there
\* to authorise it, and the token of the 201 is in the response
C28_Witness ==
    /\ Len(users) = 1 /\ users[1].role = "admin" /\ users[1].is_active
    /\ \E r \in OneWorker :
          /\ slot[r].pc = "idle" /\ slot[r].ep = "register" /\ slot[r].status = 201
          /\ slot[r].arg = NoArg
          /\ slot[r].token = create_token_response(users[1], now)
          /\ Guard("update_user", slot[r].token, now, users).status = 200

-----------------------------------------------------------------------------
(* Optional columns under updates: a customer with or without a phone, a  *)
(* job with or without a worker, then updates of both                     *)

\* The phone of the customer and the worker of the job as they were created
CreatedPhones == {None, "555-0000"}
CreatedWorkers == {0, 3}

InitNullable ==
    /\ users = <<Registered(1, "alice", "admin"), Registered(2, "bob", "worker"),
                 Registered(3, "carol", "worker")>>
    /\ \E phone \in CreatedPhones : customers = create_customer(<<>>, "Bob", phone).tbl
    /\ vehicles = create_vehicle(customers, <<>>, 1, "ABC-1234").tbl
    /\ \E assigned_worker \in CreatedWorkers :
          jobs = create_job(vehicles, users, <<>>, 1, "brake check", assigned_worker, 0).tbl
    /\ invoices = <<>>
    /\ notes = <<>>
    /\ now = 0
    /\ slot = [r \in Workers |-> Idle]
    /\ probe = NoProbe

NextNullable ==
    \/ \E r \in OneWorker, ep \in {"update_customer", "update_job"},
          token \in AdminTokens(users, now) : Request(r, ep, token)
    \/ \E r \in OneWorker, customer_id \in 1..(Len(customers) + 1), full_name \in FullNames,
          phone \in Phones, is_active \in OptBool :
          UpdateCustomer(r, customer_id, full_name, phone, is_active, MaxUpdates)
    \/ \E r \in OneWorker, job_id \in 1..(Len(jobs) + 1),
          assigned_worker \in OptWorkers(users), description \in Descriptions,
          status \in Statuses :
          UpdateJob(r, job_id, assigned_worker, description, status, MaxUpdates)

SpecNullable == InitNullable /\ [][NextNullable]_vars

\* C29: no update clears an optional column.  A job whose assigned_worker is
\* not null has, after every step, an assigned_worker that is not null and
\* is the id of a stored user; a customer whose phone is not null has a
\* phone that is not null after every step.  (email and address of a
\* customer are written by the same lines as phone.)
C29_NullableNeverCleared ==
    [][/\ \A j \in DOMAIN jobs :
             jobs[j].assigned_worker # 0
             => /\ jobs'[j].assigned_worker # 0
                /\ jobs'[j].assigned_worker \in Ids(users')
       /\ \A c \in DOMAIN customers :
             customers[c].phone # None => customers'[c].phone # None]_vars

\* Two updates ran.  The customer's changed the name and left the phone
\* out: the phone is the one of the creation.  The job's, the later one,
\* supplied the status alone: carol, assigned at the creation, still is.
C29_Witness ==
    /\ now = 2
    /\ customers[1].full_name = "Robert" /\ customers[1].phone = "555-0000"
    /\ jobs[1].status = "completed" /\ jobs[1].assigned_worker = 3
    /\ jobs[1].updated_at = 2
    /\ \E r \in OneWorker :
          /\ slot[r].pc = "idle" /\ slot[r].ep = "update_job"
          /\ slot[r].status = 200 /\ slot[r].arg.fields = 1

-----------------------------------------------------------------------------
(* Time-to-live of a token: issued with no, a zero or a positive          *)
(* expires_delta, decoded around the end of the default 24 hours          *)

\* The default time-to-live in ticks
DefaultTtl == Minutes(ACCESS_TOKEN_EXPIRE_MINUTES)

\* The clock is followed tick by tick for the first ticks and again from a
\* second short of the default time-to-live on; DayJump is the step between
DayJump == DefaultTtl - TicksPerSecond

TtlHorizon == DefaultTtl + MaxTicks

NextTtl ==
    \/ \E data \in ClaimSets, expires_delta \in Deltas : Issue(data, expires_delta)
    \/ Decode
    \/ (now < MaxTicks \/ now >= DayJump) /\ Tick(1, TtlHorizon)
    \/ now <= MaxTicks /\ Tick(DayJump, TtlHorizon)

SpecTtl == InitCodec /\ [][NextTtl]_vars

\* C30: a token issued with expires_delta of zero is the token issued with
\* no expires_delta: its exp is the second of issue time + 24 hours,
\* decode_access_token returns its claims up to 24 hours after the issue and
\* None from a second past that; a token issued with a time-to-live t other
\* than zero has as exp the second of issue time + t.
C30_ZeroTtlIsDefaultTtl ==
    probe.origin = "issued"
    => LET t == probe.ttl
           data == [user_id |-> IntClaim(probe.data.user_id),
                    username |-> probe.data.username, role |-> probe.data.role]
       IN /\ (t.given /\ t.ticks # 0)
             => probe.token.exp = Seconds(probe.issued + t.ticks)
          /\ (t.given /\ t.ticks = 0)
             => /\ probe.token = create_access_token(data, NoDelta, probe.issued)
                /\ probe.token.exp = Seconds(probe.issued + DefaultTtl)
                /\ probe.f = "decode_access_token"
                   => /\ probe.at <= probe.issued + DefaultTtl
                         => probe.res = Return(probe.data)
                      /\ probe.at >= probe.issued + DefaultTtl + TicksPerSecond
                         => probe.res = ReturnNone(NoTokenData)

\* A token issued at time 0 with timedelta(0) was decoded 24 hours later to
\* the day and gave its claims
C30_Witness ==
    /\ probe.f = "decode_access_token" /\ probe.origin = "issued"
    /\ probe.ttl = Delta(0) /\ probe.issued = 0
    /\ probe.at = DefaultTtl
    /\ probe.res = Return(probe.data)

====
